---- MODULE Spec2Model ----
(***************************************************************************)
(* Model of the particle assembler, the collision detector, the simulation *)
(* result container and the exponential growth fitter of the multipactor / *)
(* simultipac library.                                                     *)
(*                                                                         *)
(* The repository holds two generations of the particle monitor code: the  *)
(* legacy top-level package (src/particle_monitor, imported as             *)
(* "multipactor") and the packaged one (src/src/simultipac).  The variable *)
(* pkg says which of the two a behaviour runs; definitions that differ     *)
(* between the two carry the suffix _legacy for the first.                 *)
(*                                                                         *)
(* Numbers.  Floats are modelled as decimal fixed point: an integer        *)
(* mantissa together with a decimal exponent that is shared by all the     *)
(* entries of one array.  A time read from a file is m * 10^RawTimeExp;    *)
(* multiplying the array by 1e18 adds 18 to its exponent.  Positions are   *)
(* integers (metres in the file, millimetres after the conversion).        *)
(***************************************************************************)
EXTENDS Integers, Sequences, FiniteSets, TLC

VARIABLES
    pkg,            \* "multipactor" (legacy) or "simultipac"
    \* ---- one Particle driven through its public methods
    particle,       \* the Particle object's attributes
    raised,         \* exception raised by the last call on it, or "none"
    n_records,      \* number of records given to Particle() and add_a_file
    raised_msg,     \* the message of that exception
    calls,          \* the methods called so far, in order
    \* ---- ParticleMonitor.__init__
    dict_of_parts,  \* particle id -> Particle attributes
    dict_keys,      \* the keys of dict_of_parts in insertion order
    mon_pc,         \* position in the constructor
    i_final,        \* number of particles the finalize loop has been through
    mon_raised,     \* exception that left the constructor, or "none"
    max_time,       \* self.max_time: [set, m, e]
    n_read,         \* number of records consumed so far
    mon_lines,      \* the records consumed so far, in file order
    \* ---- SimulationResults.__init__
    sim,            \* the attributes of the SimulationResults object
    sim_pc,         \* "new", "constructed" or "raised"
    sim_raised,     \* exception that left the constructor, or "none"
    sim_args,       \* the arguments the constructor was called with
    sim_fit,        \* its _exp_growth_parameters, _period, _modelled_population
    sim_calls,      \* the fit_alpha calls and modelled_population reads made
    \* ---- Particle.find_collision / compute_collision_angle
    col_particle,   \* the attributes of the particle the detector reads and writes
    col_kwargs,     \* warn_no_collision, warn_multiple_collisions
    col_queries,    \* the segments the last find_collision asked the mesh about
    col_runs,       \* number of compute_collision_angles runs so far
    col_first,      \* the collision fields as the first run left them
    \* ---- part_mesh_intersections
    mt_args,        \* origins, directions, structure, eps
    mt_pc,          \* "call" or "returned"
    mt_out,         \* all_collisions, all_distances, all_impact_angles
    \* ---- fit_all / _fit_single
    fit_data,       \* data: per key the population curve and what fit_all stored
    fit_i,          \* number of keys fit_all has been through
    fit_outcomes,   \* per key, how curve_fit ended
    fit_raised,     \* exception that left fit_all, or "none"
    fit_returned,   \* per key, the fit_parameters _fit_single returned
    fit_p0,         \* per key, the initial_values[0] handed to curve_fit
    \* ---- SimulationsResults
    sims_by_id,     \* _results_by_id
    sims_results,   \* _results
    sims_call,      \* the last call: method, argument, what it returned or raised
    sims_before,    \* _results_by_id and _results as the last call found them
    \* ---- CSTResultsFactory
    cst_factory,    \* e_acc_parameter, e_acc_file_mv_m and p_rms_file of the factory
    cst_raw,        \* what mmdd_xxxxxxx_folder_to_dict read in the folder
    cst_pc,         \* "built", "returned" or "raised"
    cst_out,        \* the CSTResults returned, or the exception
    \* ---- loaders.loader_cst.particle_monitor
    ld_file,        \* the lines of the file
    ld_pc,          \* "call" or "returned"
    ld_out,         \* particles_info
    walk_tree,      \* the directories os.walk visits, with their file names
    walk_pc,        \* where the two loops over os.walk and the loop over the files stand
    walk_yielded    \* the paths yielded so far

particleVars == <<particle, raised, raised_msg, n_records, calls>>
monitorVars ==
    <<dict_of_parts, dict_keys, mon_pc, i_final, mon_raised, max_time, n_read,
      mon_lines>>
simVars == <<sim, sim_pc, sim_raised, sim_args, sim_fit, sim_calls>>
colVars == <<col_particle, col_kwargs, col_queries, col_runs, col_first>>
mtVars == <<mt_args, mt_pc, mt_out>>
fitVars ==
    <<fit_data, fit_i, fit_outcomes, fit_raised, fit_returned, fit_p0>>
simsVars == <<sims_by_id, sims_results, sims_call, sims_before>>
cstVars == <<cst_factory, cst_raw, cst_pc, cst_out>>
ldVars == <<ld_file, ld_pc, ld_out>>
walkVars == <<walk_tree, walk_pc, walk_yielded>>
vars ==
    <<pkg, particleVars, monitorVars, simVars, colVars, mtVars, fitVars,
      simsVars, cstVars, ldVars, walkVars>>

-----------------------------------------------------------------------------
(* Bounds of the model *)

\* Largest number of records one behaviour feeds to a particle or a monitor.
MaxRecords == 3
MaxFinalize == 2

\* Largest length of the time and population arrays of a simulation result.
MaxLen == 3

\* Largest number of fit_alpha calls and modelled_population reads on one
\* simulation result.
MaxCalls == 4

\* Largest number of recorded positions of the particle handed to the
\* collision detector.
MaxPositions == 3
\* Largest number of compute_collision_angles runs on one particle.
MaxRuns == 2

\* Largest coordinate of a particle origin handed to part_mesh_intersections.
MaxCoordinate == 2

\* Number of samples of a population curve handed to fit_all.
MaxSamples == 3

\* Largest number of results stored in a SimulationsResults.
MaxResults == 3

\* Largest number of lines of a Particle Monitor file.
MaxLines == 8

\* Largest number of directories of a folder's tree, the folder included.
MaxDirectories == 2

(* Program constants *)

\* Decimal exponent of the time values read from the files, chosen so that
\* the converted times are counted in units of 1e-7 ns.
RawTimeExp == -25
\* self.time *= 1e18
TimeScaleExp == 18
\* self.pos *= 1e3
MmPerM == 1000
\* determine_if_alive_at_end(..., tol=1e-6): the exponent of the tolerance
TolExp == -6
\* number of fields Particle.__init__ of simultipac accepts (raw_line)
InitArity == 1
\* number of fields of one record (PartMonLine)
RecordArity == 12
\* skip_obvious: fewest electrons at the end for which a fit is tried
SkipBelow == 10
\* n_header of loaders.loader_cst.particle_monitor
n_header == 6
\* e_acc * 1e-6 in _pop_e_acc
EAccFileExp == -6
\* time between two samples of a population curve, in units of 0.2 ns
SampleStep == 5
\* t_lim of _fit_single_spark, in periods
PeriodsBeforeFit == 5
LowerBoundExp == -10

Packages == {"multipactor", "simultipac"}

Times == {0, 5, 20}
Positions == {<<0, 0, 0>>, <<0, 0, 1>>}
Momenta == {<<0, 0, 1>>}
Masses == {1, 2}
Charges == {1, 2}
MacroCharges == {1}
PIDs == {7, 8}

\* One line of a Particle Monitor file, after _str_to_correct_types.
Records ==
    [pos : Positions, mom : Momenta, mass : Masses, charge : Charges,
     macro_charge : MacroCharges, time : Times, particle_id : PIDs,
     source_id : {0}]

\* The records one Particle is fed with in the single-particle specification.
ParticleRecords == {r \in Records : r.particle_id = 7}

\* The records of the folders the monitor is built from.
MonitorRecords == {r \in Records : r.charge = 1 /\ r.mass = 1}

-----------------------------------------------------------------------------
(* Arrays *)

Last(s) == s[Len(s)]

RECURSIVE Pow10(_)
Pow10(n) == IF n <= 0 THEN 1 ELSE 10 * Pow10(n - 1)

Abs(x) == IF x < 0 THEN -x ELSE x

MaxOf(S) == CHOOSE x \in S : \A y \in S : y <= x

\* a[idx] for an index array idx
Reindex(a, idx) == [i \in 1..Len(idx) |-> a[idx[i]]]

IsNonDecreasing(a) == \A i \in 1..(Len(a) - 1) : a[i] <= a[i + 1]

IndexArrays(n) ==
    {p \in [1..n -> 1..n] : \A i, j \in 1..n : i # j => p[i] # p[j]}

\* np.argsort(a) with the default kind: any index array that sorts a; the
\* order of equal entries is not specified.
argsort(a) == {idx \in IndexArrays(Len(a)) : IsNonDecreasing(Reindex(a, idx))}

\* np.sort(a)
np_sort(a) == Reindex(a, CHOOSE idx \in argsort(a) : TRUE)

\* (array == np.sort(array)).all()
_is_sorted(array) == \A i \in 1..Len(array) : array[i] = np_sort(array)[i]

-----------------------------------------------------------------------------
(* Particle *)

\* Attributes every Particle record of the model carries.  An attribute the
\* code has not assigned yet is flagged by has_time / has_pos / has_mass /
\* has_charge.  The three per-axis lists _posx, _posy, _posz (and _momx,
\* _momy, _momz), which are appended to together and stacked together, are
\* kept as one list of 3-vectors.  extrapolated tells which of the
\* extrapolated arrays hold numbers: "None" (never computed), "nan" (arrays of
\* NaN), "pos" (times and positions, momenta NaN), "pos_mom" (all three).
Unset ==
    [has_time |-> FALSE, time |-> <<>>, time_exp |-> RawTimeExp,
     as_array |-> FALSE,
     has_pos |-> FALSE, pos |-> <<>>, mom |-> <<>>,
     has_mass |-> FALSE, mass |-> 0, has_charge |-> FALSE, charge |-> 0,
     extrapolated |-> "None", alive_at_end |-> FALSE]

\* Particle.__init__ of simultipac: the time steps go to _time and
\* _macro_charge; the attributes time and macro_charge are not assigned.
Particle(line) ==
    [_pos |-> <<line.pos>>, _mom |-> <<line.mom>>,
     _masses |-> <<line.mass>>, _charges |-> <<line.charge>>,
     _macro_charge |-> <<line.macro_charge>>, _time |-> <<line.time>>,
     macro_charge |-> <<>>,
     particle_id |-> line.particle_id, source_id |-> line.source_id] @@ Unset

\* Particle.__init__ of the legacy package: the time steps go to the public
\* lists time and macro_charge.
Particle_legacy(line) ==
    [_pos |-> <<line.pos>>, _mom |-> <<line.mom>>,
     _masses |-> <<line.mass>>, _charges |-> <<line.charge>>,
     macro_charge |-> <<line.macro_charge>>,
     _macro_charge |-> <<>>, _time |-> <<>>,
     particle_id |-> line.particle_id, source_id |-> line.source_id]
    @@ [Unset EXCEPT !.has_time = TRUE, !.time = <<line.time>>]

\* Particle.add_a_file of simultipac.  The particle id of the line is not
\* looked at.
add_a_file(p, line) ==
    [p EXCEPT !._pos = Append(@, line.pos), !._mom = Append(@, line.mom),
              !._masses = Append(@, line.mass),
              !._charges = Append(@, line.charge),
              !._macro_charge = Append(@, line.macro_charge),
              !._time = Append(@, line.time)]

\* Particle.add_a_file of the legacy package.
add_a_file_legacy(p, line) ==
    [p EXCEPT !._pos = Append(@, line.pos), !._mom = Append(@, line.mom),
              !._masses = Append(@, line.mass),
              !._charges = Append(@, line.charge),
              !.macro_charge = Append(@, line.macro_charge),
              !.time = Append(@, line.time)]

\* Particle.add_a_file of the legacy package on a particle whose time and
\* macro_charge finalize has made arrays: the appends to the coordinate,
\* mass and charge lists are done when macro_charge.append fails, an array
\* having no append.
add_a_file_to_arrays_legacy(p, line) ==
    IF ~p.as_array THEN [p |-> add_a_file_legacy(p, line), err |-> "none"]
    ELSE [p |-> [p EXCEPT !._pos = Append(@, line.pos),
                          !._mom = Append(@, line.mom),
                          !._masses = Append(@, line.mass),
                          !._charges = Append(@, line.charge)],
          err |-> "AttributeError"]

\* A constancy check that compares only the last entry with the first one.
_get_constant_ends_only(variables) ==
    IF variables[Len(variables)] = variables[1]
    THEN [err |-> "none", constant |-> variables[1]]
    ELSE [err |-> "ValueError", constant |-> 0]

\* _get_constant of simultipac: raises ValueError unless all the entries
\* equal the first one.
_get_constant(variables) ==
    IF \A i \in 1..Len(variables) : variables[i] = variables[1]
    THEN [err |-> "none", constant |-> variables[1]]
    ELSE [err |-> "ValueError", constant |-> 0]

\* _get_constant of the legacy package: returns (isconstant, constant).
_get_constant_legacy(variables) ==
    IF \A i \in 1..Len(variables) : variables[i] = variables[1]
    THEN [isconstant |-> TRUE, constant |-> variables[1]]
    ELSE [isconstant |-> FALSE, constant |-> 0]

\* Each step of finalize returns the particle as the step leaves it and the
\* exception it raised ("none": it returned).

\* Particle._check_constanteness_of_some_attributes of simultipac.
_check_constanteness_of_some_attributes(p) ==
    LET m == _get_constant(p._masses)
        c == _get_constant(p._charges)
        withMass == [p EXCEPT !.has_mass = TRUE, !.mass = m.constant]
    IN  IF m.err # "none" THEN [p |-> p, err |-> m.err]
        ELSE IF c.err # "none" THEN [p |-> withMass, err |-> c.err]
        ELSE [p |-> [withMass EXCEPT !.has_charge = TRUE,
                                     !.charge = c.constant],
              err |-> "none"]

\* Particle._check_constanteness_of_some_attributes of the legacy package.
_check_constanteness_of_some_attributes_legacy(p) ==
    LET m == _get_constant_legacy(p._masses)
        c == _get_constant_legacy(p._charges)
        withMass == [p EXCEPT !.has_mass = TRUE, !.mass = m.constant]
    IN  IF ~m.isconstant THEN [p |-> p, err |-> "IOError"]
        ELSE IF ~c.isconstant THEN [p |-> withMass, err |-> "IOError"]
        ELSE [p |-> [withMass EXCEPT !.has_charge = TRUE,
                                     !.charge = c.constant],
              err |-> "none"]

\* Particle._some_values_to_array of simultipac: pos and mom are stacked,
\* then np.array(self.time) reads an attribute that was never assigned.
_some_values_to_array(p) ==
    LET stacked == [p EXCEPT !.has_pos = TRUE, !.pos = p._pos,
                             !.mom = p._mom]
    IN  IF ~p.has_time THEN [p |-> stacked, err |-> "AttributeError"]
        ELSE [p |-> [stacked EXCEPT !.as_array = TRUE], err |-> "none"]

\* Particle._some_values_to_array of the legacy package.
_some_values_to_array_legacy(p) ==
    [p EXCEPT !.has_pos = TRUE, !.pos = p._pos, !.mom = p._mom,
              !.as_array = TRUE]

\* Particle._switch_to_mm_ns_units (the same in both packages).
_switch_to_mm_ns_units(p) ==
    [p EXCEPT !.pos = [i \in 1..Len(p.pos) |->
                          [k \in 1..3 |-> p.pos[i][k] * MmPerM]],
              !.time_exp = @ + TimeScaleExp]

\* A sort that reorders the other arrays and leaves time as it was.
_sort_forgets_time(p, idx) ==
    [p EXCEPT !.pos = Reindex(p.pos, idx), !.mom = Reindex(p.mom, idx),
              !.macro_charge = Reindex(p.macro_charge, idx)]

\* Particle._sort_by_increasing_time_values of the legacy package, idx being
\* what np.argsort(self.time) returned.
_sort_by_increasing_time_values_legacy(p, idx) ==
    [p EXCEPT !.pos = Reindex(p.pos, idx), !.mom = Reindex(p.mom, idx),
              !.macro_charge = Reindex(p.macro_charge, idx),
              !.time = Reindex(p.time, idx)]

\* A finalize that leaves the arrays in the order the lines came in.
finalize_legacy_unsorted(p, idx) ==
    LET checked == _check_constanteness_of_some_attributes_legacy(p)
    IN  IF checked.err # "none" THEN checked
        ELSE [p |-> _switch_to_mm_ns_units(
                        _some_values_to_array_legacy(checked.p)),
              err |-> "none"]

\* Particle.finalize of the legacy package.
finalize_legacy(p, idx) ==
    LET checked == _check_constanteness_of_some_attributes_legacy(p)
        converted ==
            _switch_to_mm_ns_units(_some_values_to_array_legacy(checked.p))
    IN  IF checked.err # "none" THEN checked
        ELSE IF _is_sorted(converted.time)
             THEN [p |-> converted, err |-> "none"]
             ELSE [p |-> _sort_by_increasing_time_values_legacy(converted, idx),
                   err |-> "none"]

\* Particle.finalize of simultipac.  _sort_by_increasing_time_values assigns
\* to macro_charge, a property without a setter.
finalize(p, idx) ==
    LET checked == _check_constanteness_of_some_attributes(p)
        arrays == _some_values_to_array(checked.p)
        converted == _switch_to_mm_ns_units(arrays.p)
    IN  IF checked.err # "none" THEN checked
        ELSE IF arrays.err # "none" THEN arrays
        ELSE IF _is_sorted(converted.time)
             THEN [p |-> converted, err |-> "none"]
             ELSE [p |-> [converted EXCEPT !.pos = Reindex(@, idx),
                                           !.mom = Reindex(@, idx)],
                   err |-> "AttributeError"]

\* An exception message: its text and the values formatted into it.
NoMessage == [text |-> "", formatted |-> <<>>]

\* The message of the exception that leaves finalize.  The legacy package
\* checks the mass first and raises with a literal; simultipac raises
\* ValueError without arguments, and its AttributeError comes from the
\* interpreter.
finalize_message(package, p, err) ==
    IF err = "IOError"
    THEN [text |-> IF ~_get_constant_legacy(p._masses).isconstant
                   THEN "Variation of mass during simulation."
                   ELSE "Variation of charge during simulation.",
          formatted |-> <<>>]
    ELSE IF err = "AttributeError"
    THEN [text |-> "'Particle' object has no attribute 'time'",
          formatted |-> <<>>]
    ELSE NoMessage

\* The index arrays np.argsort may return in finalize.
SortIndices(p) == argsort(IF p.has_time THEN p.time ELSE <<>>)

\* Particle.extrapolate_pos_and_mom_one_time_step_further and the legacy
\* _extrapolate_pos_and_mom_one_time_step_further: which of the extrapolated
\* arrays receive numbers.  (n_time_steps_for_polynom_fitting = 3.)  The
\* arrays of NaN are assigned before self.time.shape is read, which fails
\* when time was never assigned (simultipac) or is still a list (legacy).
extrapolate_pos_and_mom_one_time_step_further(p) ==
    IF ~p.has_time \/ ~p.as_array
    THEN [p |-> [p EXCEPT !.extrapolated = "nan"], err |-> "AttributeError"]
    ELSE [p |-> [p EXCEPT !.extrapolated =
                     IF Len(p.time) <= 1 THEN "nan"
                     ELSE IF 3 > Len(p.time) THEN "pos"
                     ELSE "pos_mom"],
          err |-> "none"]

\* |m| * 10^e < 10^t
BelowPow10(m, e, t) ==
    IF e <= t THEN Abs(m) < Pow10(t - e) ELSE Abs(m) * Pow10(e - t) < 1

\* Particle.determine_if_alive_at_end with the default tol; mt is max_time.
determine_if_alive_at_end(p, mt) ==
    IF ~p.has_time THEN [p |-> p, err |-> "AttributeError"]
    ELSE [p |-> [p EXCEPT !.alive_at_end =
                     @ \/ BelowPow10(mt.m - Last(p.time), p.time_exp, TolExp)],
          err |-> "none"]

-----------------------------------------------------------------------------
(* One Particle, driven through its methods by a caller that passes each    *)
(* line the way the method's signature asks for.                            *)

MonitorIdle ==
    /\ dict_of_parts = <<>>
    /\ dict_keys = <<>>
    /\ mon_pc = "idle"
    /\ i_final = 0
    /\ mon_raised = "none"
    /\ max_time = [set |-> FALSE, m |-> 0, e |-> 0]
    /\ n_read = 0
    /\ mon_lines = <<>>

SimIdle ==
    /\ sim = <<>>
    /\ sim_pc = "idle"
    /\ sim_raised = "none"
    /\ sim_args = <<>>
    /\ sim_fit = <<>>
    /\ sim_calls = <<>>

ColIdle ==
    /\ col_particle = <<>>
    /\ col_kwargs = <<>>
    /\ col_queries = <<>>
    /\ col_runs = 0
    /\ col_first = <<>>

MtIdle ==
    /\ mt_args = <<>>
    /\ mt_pc = "idle"
    /\ mt_out = <<>>

FitIdle ==
    /\ fit_data = <<>>
    /\ fit_i = 0
    /\ fit_outcomes = <<>>
    /\ fit_raised = "none"
    /\ fit_returned = <<>>
    /\ fit_p0 = <<>>

SimsIdle ==
    /\ sims_by_id = <<>>
    /\ sims_results = <<>>
    /\ sims_call = <<>>
    /\ sims_before = <<>>

CstIdle ==
    /\ cst_factory = <<>>
    /\ cst_raw = <<>>
    /\ cst_pc = "idle"
    /\ cst_out = <<>>

LdIdle ==
    /\ ld_file = <<>>
    /\ ld_pc = "idle"
    /\ ld_out = <<>>

WalkIdle ==
    /\ walk_tree = <<>>
    /\ walk_pc = [outer |-> 0, inner |-> 0, file |-> 0]
    /\ walk_yielded = <<>>

ParticleIdle ==
    /\ particle = <<>>
    /\ raised = "none"
    /\ raised_msg = NoMessage
    /\ n_records = 0
    /\ calls = <<>>

InitParticle ==
    /\ pkg \in Packages
    /\ \E line \in ParticleRecords :
          particle = IF pkg = "simultipac" THEN Particle(line)
                     ELSE Particle_legacy(line)
    /\ raised = "none"
    /\ raised_msg = NoMessage
    /\ n_records = 1
    /\ calls = <<"Particle">>
    /\ MonitorIdle /\ SimIdle /\ ColIdle /\ MtIdle /\ FitIdle
    /\ SimsIdle /\ CstIdle /\ LdIdle /\ WalkIdle

\* Whether the method was called on the particle.
Called(method) == \E i \in 1..Len(calls) : calls[i] = method

AddAFile ==
    /\ raised = "none"
    /\ ~Called("finalize")
    /\ n_records < MaxRecords
    /\ \E line \in ParticleRecords :
          particle' = IF pkg = "simultipac" THEN add_a_file(particle, line)
                      ELSE add_a_file_legacy(particle, line)
    /\ n_records' = n_records + 1
    /\ calls' = Append(calls, "add_a_file")
    /\ UNCHANGED <<pkg, walkVars, raised, raised_msg, monitorVars, simVars, colVars, mtVars,
                   fitVars, simsVars,
                   cstVars, ldVars>>

Finalize ==
    /\ raised = "none"
    /\ ~Called("finalize")
    /\ \E idx \in SortIndices(particle) :
          LET r == IF pkg = "simultipac" THEN finalize(particle, idx)
                   ELSE finalize_legacy(particle, idx)
          IN  /\ particle' = r.p
              /\ raised' = r.err
              /\ raised_msg' = finalize_message(pkg, particle, r.err)
    /\ calls' = Append(calls, "finalize")
    /\ UNCHANGED <<pkg, walkVars, n_records, monitorVars, simVars, colVars, mtVars,
                   fitVars, simsVars,
                   cstVars, ldVars>>

\* extrapolate_pos_and_mom_one_time_step_further of simultipac, and
\* detect_collision of the legacy package.
Extrapolate ==
    /\ raised = "none"
    /\ ~Called("extrapolate")
    /\ LET r == extrapolate_pos_and_mom_one_time_step_further(particle)
       IN  /\ particle' = r.p
           /\ raised' = r.err
           /\ raised_msg' = NoMessage
    /\ calls' = Append(calls, "extrapolate")
    /\ UNCHANGED <<pkg, walkVars, n_records, monitorVars, simVars, colVars, mtVars,
                   fitVars, simsVars,
                   cstVars, ldVars>>

\* add_a_file called on a particle finalize has returned from.
AddAFileAfterFinalize ==
    /\ raised = "none"
    /\ Called("finalize")
    /\ \E line \in ParticleRecords :
          LET r == add_a_file_to_arrays_legacy(particle, line)
          IN  /\ particle' = r.p
              /\ raised' = r.err
    /\ raised_msg' = NoMessage
    /\ calls' = Append(calls, "add_a_file")
    /\ UNCHANGED <<pkg, walkVars, n_records, monitorVars, simVars, colVars, mtVars,
                   fitVars, simsVars, cstVars, ldVars>>

\* finalize called on a particle finalize has returned from.
FinalizeAgain ==
    /\ raised = "none"
    /\ Called("finalize")
    /\ Cardinality({i \in 1..Len(calls) : calls[i] = "finalize"})
          < MaxFinalize
    /\ \E idx \in SortIndices(particle) :
          LET r == finalize_legacy(particle, idx)
          IN  /\ particle' = r.p
              /\ raised' = r.err
              /\ raised_msg' = finalize_message(pkg, particle, r.err)
    /\ calls' = Append(calls, "finalize")
    /\ UNCHANGED <<pkg, walkVars, n_records, monitorVars, simVars, colVars, mtVars,
                   fitVars, simsVars, cstVars, ldVars>>

NextParticle ==
    \/ AddAFile
    \/ Finalize
    \/ Extrapolate
    \/ AddAFileAfterFinalize
    \/ FinalizeAgain

SpecParticle == InitParticle /\ [][NextParticle]_vars

\* finalize has been called and has returned.
Finalized == Last(calls) = "finalize" /\ raised = "none"

NonConstant(s) == \E i, j \in 1..Len(s) : s[i] # s[j]

\* C1: a particle built by Particle(first record), add_a_file calls in any
\* chronological order and finalize has a non-decreasing time sequence, and
\* its time, pos, mom and macro_charge all hold as many entries as records
\* were contributed.
C1_FinalizedSortedAndComplete ==
    Finalized =>
        /\ IsNonDecreasing(particle.time)
        /\ Len(particle.time) = n_records
        /\ Len(particle.pos) = n_records
        /\ Len(particle.mom) = n_records
        /\ Len(particle.macro_charge) = n_records

\* A finalized particle of three records whose positions were reordered:
\* the records did not arrive in chronological order.
C1_Witness ==
    /\ Finalized
    /\ n_records = 3
    /\ \E i \in 1..3 : particle.pos[i][3] # particle._pos[i][3] * MmPerM

\* C2: when two accumulated records differ in mass, or in charge, finalize
\* raises the data-integrity error (IOError in the legacy package, ValueError
\* in simultipac), assigns no value to the attribute that varies and builds
\* no arrays.
C2_VaryingMassOrChargeRaises ==
    (Last(calls) = "finalize"
        /\ (NonConstant(particle._masses) \/ NonConstant(particle._charges)))
    => /\ raised = IF pkg = "simultipac" THEN "ValueError" ELSE "IOError"
       /\ NonConstant(particle._masses) => ~particle.has_mass
       /\ NonConstant(particle._charges) => ~particle.has_charge
       /\ ~particle.has_pos
       /\ ~particle.as_array

\* finalize was called on three records of constant mass whose first and
\* last charge agree and whose second differs.
C2_Witness ==
    /\ Last(calls) = "finalize"
    /\ n_records = 3
    /\ ~NonConstant(particle._masses)
    /\ particle._charges[1] = particle._charges[3]
    /\ particle._charges[2] # particle._charges[1]
    /\ raised # "none"

\* C20: the error finalize raises for a mass or a charge that is not
\* constant carries the ID of the particle in its message.
C20_MessageCarriesParticleId ==
    (Last(calls) = "finalize" /\ raised \in {"IOError", "ValueError"}) =>
        \E i \in 1..Len(raised_msg.formatted) :
            raised_msg.formatted[i] = particle.particle_id

\* C12: on a particle with at most one recorded time step the
\* extrapolation returns and leaves extrapolated_times, extrapolated_pos and
\* extrapolated_mom as they were before the call (None, the call being the
\* first).
C12_ExtrapolateIsNoOp ==
    (Last(calls) = "extrapolate" /\ n_records <= 1)
    => /\ raised = "none"
       /\ particle.extrapolated = "None"

\* The series of a particle and the unit of its times.
SeriesWithUnits(p) ==
    <<p.time, p.time_exp, p.pos, p.mom, p.macro_charge>>

\* C25: add_a_file or finalize called on a particle finalize has returned
\* from is rejected, and leaves its time, pos, mom and macro_charge as the
\* finalize left them: sorted and converted once.
C25_NoMutationAfterFinalize ==
    [][(/\ Called("finalize")
        /\ raised = "none"
        /\ calls' # calls
        /\ Last(calls') \in {"add_a_file", "finalize"})
       => /\ raised' # "none"
          /\ SeriesWithUnits(particle') = SeriesWithUnits(particle)]_vars

-----------------------------------------------------------------------------
(* ParticleMonitor.__init__ *)

\* Whether a method of the package can be called as f(*particle_info): the
\* legacy methods take *line, the simultipac ones a single raw_line.
AcceptsUnpackedLine(package) ==
    package = "multipactor" \/ InitArity = RecordArity

InitMonitor ==
    /\ pkg \in Packages
    /\ dict_of_parts = <<>>
    /\ dict_keys = <<>>
    /\ mon_pc = "reading"
    /\ i_final = 0
    /\ mon_raised = "none"
    /\ max_time = [set |-> FALSE, m |-> 0, e |-> 0]
    /\ n_read = 0
    /\ mon_lines = <<>>
    /\ ParticleIdle /\ SimIdle /\ ColIdle /\ MtIdle /\ FitIdle
    /\ SimsIdle /\ CstIdle /\ LdIdle /\ WalkIdle

\* One turn of the loop over the lines of the files.
LoadRecord ==
    /\ mon_pc = "reading"
    /\ n_read < MaxRecords
    /\ n_read' = n_read + 1
    /\ \E particle_info \in MonitorRecords :
          LET particle_id == particle_info.particle_id IN
          /\ mon_lines' = Append(mon_lines, particle_info)
          /\ IF ~AcceptsUnpackedLine(pkg)
             THEN /\ mon_pc' = "raised"
                  /\ mon_raised' = "TypeError"
                  /\ UNCHANGED <<dict_of_parts, dict_keys>>
             ELSE IF particle_id \in DOMAIN dict_of_parts
             THEN /\ dict_of_parts' =
                        [dict_of_parts EXCEPT ![particle_id] =
                            IF pkg = "simultipac"
                            THEN add_a_file(@, particle_info)
                            ELSE add_a_file_legacy(@, particle_info)]
                  /\ UNCHANGED <<dict_keys, mon_pc, mon_raised>>
             ELSE /\ dict_of_parts' =
                        (particle_id :>
                            IF pkg = "simultipac" THEN Particle(particle_info)
                            ELSE Particle_legacy(particle_info))
                        @@ dict_of_parts
                  /\ dict_keys' = Append(dict_keys, particle_id)
                  /\ UNCHANGED <<mon_pc, mon_raised>>
    /\ UNCHANGED <<pkg, walkVars, i_final, max_time, particleVars, simVars, colVars,
                   mtVars, fitVars, simsVars,
                   cstVars, ldVars>>

\* The files are exhausted.
EndOfFiles ==
    /\ mon_pc = "reading"
    /\ mon_pc' = "finalizing"
    /\ UNCHANGED <<pkg, walkVars, dict_of_parts, dict_keys, i_final, mon_raised,
                   max_time, n_read, mon_lines, particleVars, simVars, colVars,
                   mtVars, fitVars, simsVars,
                   cstVars, ldVars>>

\* One turn of the loop "for particle in dict_of_parts.values()".
FinalizeNext ==
    /\ mon_pc = "finalizing"
    /\ i_final < Len(dict_keys)
    /\ i_final' = i_final + 1
    /\ LET k == dict_keys[i_final + 1]
           p == dict_of_parts[k]
       IN  \E idx \in SortIndices(p) :
              LET f == IF pkg = "simultipac" THEN finalize(p, idx)
                       ELSE finalize_legacy(p, idx)
                  x == extrapolate_pos_and_mom_one_time_step_further(f.p)
                  r == IF f.err # "none" THEN f ELSE x
              IN  /\ dict_of_parts' = [dict_of_parts EXCEPT ![k] = r.p]
                  /\ mon_raised' = r.err
                  /\ mon_pc' = IF r.err # "none" THEN "raised" ELSE mon_pc
    /\ UNCHANGED <<pkg, walkVars, dict_keys, max_time, n_read, mon_lines, particleVars, simVars, colVars,
                   mtVars, fitVars, simsVars,
                   cstVars, ldVars>>

\* What follows the finalize loop: max_time and, in simultipac, the alive
\* flags.  max() of an empty list raises ValueError; so does np.max.
EndOfInit ==
    /\ mon_pc = "finalizing"
    /\ i_final = Len(dict_keys)
    /\ LET parts == dict_of_parts
           mt == [set |-> TRUE,
                  m |-> MaxOf({Last(parts[k].time) : k \in DOMAIN parts}),
                  e |-> parts[dict_keys[1]].time_exp]
           alive == [k \in DOMAIN parts |->
                        determine_if_alive_at_end(parts[k], mt)]
       IN  IF dict_keys = <<>>
           THEN /\ mon_raised' = "ValueError"
                /\ mon_pc' = "raised"
                /\ UNCHANGED <<dict_of_parts, max_time>>
           ELSE IF \E k \in DOMAIN parts : ~parts[k].has_time
           THEN /\ mon_raised' = "AttributeError"
                /\ mon_pc' = "raised"
                /\ UNCHANGED <<dict_of_parts, max_time>>
           ELSE /\ max_time' = mt
                /\ mon_pc' = "done"
                /\ mon_raised' = "none"
                /\ dict_of_parts' =
                      IF pkg = "simultipac"
                      THEN [k \in DOMAIN parts |-> alive[k].p]
                      ELSE parts
    /\ UNCHANGED <<pkg, walkVars, dict_keys, i_final, n_read, mon_lines, particleVars, simVars, colVars,
                   mtVars, fitVars, simsVars,
                   cstVars, ldVars>>

NextMonitor == LoadRecord \/ EndOfFiles \/ FinalizeNext \/ EndOfInit

SpecMonitor == InitMonitor /\ [][NextMonitor]_vars

\* The constructor has returned or raised.
MonitorEnded == mon_pc \in {"done", "raised"}

\* C5: a ParticleMonitor of simultipac built from a folder that holds
\* records ends up constructed, with max_time the largest last time sample
\* of its particles and every alive_at_end flag true exactly when
\* |max_time - last time| < 1e-6, so that at least one particle is alive.
C5_MaxTimeAndAliveFlags ==
    (pkg = "simultipac" /\ MonitorEnded /\ n_read > 0) =>
        /\ mon_pc = "done"
        /\ max_time.set
        /\ max_time.m = MaxOf({Last(dict_of_parts[k].time) :
                                  k \in DOMAIN dict_of_parts})
        /\ \A k \in DOMAIN dict_of_parts :
              dict_of_parts[k].alive_at_end =
                  BelowPow10(max_time.m - Last(dict_of_parts[k].time),
                             dict_of_parts[k].time_exp, TolExp)
        /\ \E k \in DOMAIN dict_of_parts : dict_of_parts[k].alive_at_end

\* The records consumed are the first, or both, of a folder of two records
\* of particle 7, the first at t = 0 and the second later.
ReadsParticleSevenFolder ==
    /\ Len(mon_lines) \in {1, 2}
    /\ \A i \in 1..Len(mon_lines) : mon_lines[i].particle_id = 7
    /\ mon_lines[1].time = 0
    /\ Len(mon_lines) = 2 => mon_lines[2].time > 0

\* C13: a simultipac ParticleMonitor built from two records of particle 7,
\* the first at t = 0 and the second later, is constructed without error
\* from both records, holds particle 7, has max_time equal to the time of
\* the second record in ns, and particle 7 is alive at end.
C13_TwoStepsOfParticleSeven ==
    (pkg = "simultipac" /\ MonitorEnded /\ ReadsParticleSevenFolder)
    => /\ mon_pc = "done"
       /\ mon_raised = "none"
       /\ Len(mon_lines) = 2
       /\ DOMAIN dict_of_parts = {7}
       /\ max_time.set
       /\ max_time.m = mon_lines[2].time
       /\ max_time.e = RawTimeExp + TimeScaleExp
       /\ dict_of_parts[7].alive_at_end

\* dict_of_parts of the legacy ParticleMonitor.__init__ after its loop over
\* the lines of the files, the lines being consumed in the order given.
RECURSIVE read_lines(_)
read_lines(lines) ==
    IF lines = <<>> THEN <<>>
    ELSE LET before == read_lines(SubSeq(lines, 1, Len(lines) - 1))
             particle_info == Last(lines)
             particle_id == particle_info.particle_id
         IN  IF particle_id \in DOMAIN before
             THEN [before EXCEPT ![particle_id] =
                      add_a_file_legacy(@, particle_info)]
             ELSE (particle_id :> Particle_legacy(particle_info)) @@ before

\* What C24 compares of a particle.
Series(p) == <<p.source_id, p.time, p.pos, p.mom, p.macro_charge>>

\* The collection built from the same lines in any other order has, for
\* every particle, the series the collection built has.
SameInAnyOrder ==
    \A perm \in IndexArrays(Len(mon_lines)) :
        LET parts == read_lines(Reindex(mon_lines, perm))
        IN  \A k \in DOMAIN parts :
               \A idx \in SortIndices(parts[k]) :
                  Series(finalize_legacy(parts[k], idx).p)
                     = Series(dict_of_parts[k])

\* No two lines of one particle carry the same time.
OneLinePerTimeStep ==
    \A i, j \in 1..Len(mon_lines) :
        (i # j /\ mon_lines[i].particle_id = mon_lines[j].particle_id)
           => mon_lines[i].time # mon_lines[j].time

C6_EmptyFolderGuarded ==
    (MonitorEnded /\ n_read = 0) =>
        /\ mon_pc = "raised"
        /\ mon_raised # "ValueError"

-----------------------------------------------------------------------------
(* SimulationResults.__init__ *)

TimeValues == {0, 1}
PopulationValues == {0, 1, 2}

\* The one-dimensional arrays of at most MaxLen entries taken from S.
Arrays(S) == UNION {[1..n -> S] : n \in 0..MaxLen}

Min(a, b) == IF a <= b THEN a ELSE b

\* array[:n]
Slice(array, n) == SubSeq(array, 1, Min(n, Len(array)))

\* SimulationResults._check_consistent_shapes: the exception it raises.
_check_consistent_shapes(obj) ==
    IF Len(obj.time) = Len(obj.population) THEN "none"
    ELSE "ShapeMismatchError"

\* A trim that keeps the first zero-population sample.
_trim_keeps_first_zero(obj) ==
    LET idx_to_remove ==
            {i \in 1..Len(obj.population) : obj.population[i] = 0}
        last_idx == CHOOSE i \in idx_to_remove : \A j \in idx_to_remove : i <= j
    IN  IF idx_to_remove = {} THEN obj
        ELSE [obj EXCEPT !.population = Slice(@, last_idx),
                         !.time = Slice(@, last_idx)]

\* SimulationResults._trim_trailing.  idx_to_remove holds the places of the
\* zero samples counted from 1, so that idx_to_remove[0][0] is the smallest
\* of them less one.
_trim_trailing(obj) ==
    LET idx_to_remove ==
            {i \in 1..Len(obj.population) : obj.population[i] = 0}
        last_idx ==
            (CHOOSE i \in idx_to_remove : \A j \in idx_to_remove : i <= j) - 1
    IN  IF idx_to_remove = {} THEN obj
        ELSE [obj EXCEPT !.population = Slice(@, last_idx),
                         !.time = Slice(@, last_idx)]

\* The attributes __init__ assigns before it checks anything.
FirstAttributes(a) ==
    [id |-> a.id, e_acc |-> a.e_acc, p_rms |-> a.p_rms, time |-> a.time,
     population |-> a.population]

\* A constructor that trims before it checks the shapes.
init_trims_before_check(a) ==
    LET trimmed == IF a.trim_trailing THEN _trim_trailing(FirstAttributes(a))
                   ELSE FirstAttributes(a)
    IN  [obj |-> trimmed, err |-> _check_consistent_shapes(trimmed)]

\* SimulationResults.__init__: the attributes of the object and the exception
\* raised ("none": the object is returned).  The fit attributes assigned last
\* (_exp_growth_parameters = {}, _period, _modelled_population = None) are
\* not part of this record.
SimulationResults_init(a) ==
    LET obj == FirstAttributes(a)
        err == _check_consistent_shapes(obj)
    IN  IF err # "none" THEN [obj |-> obj, err |-> err]
        ELSE [obj |-> IF a.trim_trailing THEN _trim_trailing(obj) ELSE obj,
              err |-> "none"]

\* The period argument: None, the empty tuple, or the period in a tuple.
PeriodArguments == {<<>>, <<SampleStep>>}
FittingPeriods == {1, 2}

\* The attributes SimulationResults.__init__ assigns last.  The dict
\* _exp_growth_parameters is the tuple of what it holds, empty for {}, and
\* _modelled_population is the empty tuple when None.
FitAttributes(period) ==
    [_exp_growth_parameters |-> <<>>, _period |-> period,
     _modelled_population |-> <<>>]

\* util.exponential_growth.fit_alpha: the parameter dict, known by the data
\* and the range it was fitted on; its model entry is the function the
\* curve is computed with.
util_fit_alpha(time, population, fitting_range, period) ==
    [model |-> "exp_growth", time |-> time, population |-> population,
     fitting_range |-> fitting_range, period |-> period]

\* model(self.time, **self._exp_growth_parameters)
model(time, parameters) == [time |-> time, parameters |-> parameters]

\* SimulationResults.fit_alpha(fitting_periods) on the object of attributes
\* obj and fit attributes fit.
fit_alpha(obj, fit, fitting_periods) ==
    IF fit._period = <<>> THEN [fit |-> fit, err |-> "AssertionError"]
    ELSE [fit |-> [fit EXCEPT !._exp_growth_parameters =
                      <<util_fit_alpha(obj.time, obj.population,
                                       fit._period[1] * fitting_periods,
                                       fit._period[1])>>],
          err |-> "none"]

\* The property SimulationResults.modelled_population: the fit attributes
\* after the read, the value returned (in a tuple) and the exception.
\* _exp_growth_parameters is a dict from the constructor on, never None.
modelled_population(obj, fit) ==
    IF fit._modelled_population # <<>>
    THEN [fit |-> fit, returned |-> fit._modelled_population, err |-> "none"]
    ELSE IF fit._exp_growth_parameters = <<>>
    THEN [fit |-> fit, returned |-> <<>>, err |-> "KeyError"]
    ELSE LET curve == model(obj.time, fit._exp_growth_parameters[1])
         IN  [fit |-> [fit EXCEPT !._modelled_population = <<curve>>],
              returned |-> <<curve>>, err |-> "none"]

InitSim ==
    /\ pkg = "simultipac"
    /\ sim = <<>>
    /\ sim_pc = "new"
    /\ sim_raised = "none"
    /\ sim_args = <<>>
    /\ sim_fit = <<>>
    /\ sim_calls = <<>>
    /\ ParticleIdle /\ MonitorIdle /\ ColIdle /\ MtIdle /\ FitIdle
    /\ SimsIdle /\ CstIdle /\ LdIdle /\ WalkIdle

Construct ==
    /\ sim_pc = "new"
    /\ \E time \in Arrays(TimeValues), population \in Arrays(PopulationValues),
          trim_trailing \in BOOLEAN, period \in PeriodArguments :
          LET a == [id |-> 1, e_acc |-> 5, p_rms |-> 2, time |-> time,
                    population |-> population,
                    trim_trailing |-> trim_trailing]
              r == SimulationResults_init(a)
          IN  /\ sim_args' = a
              /\ sim_raised' = r.err
              /\ sim_pc' = IF r.err = "none" THEN "constructed" ELSE "raised"
              /\ sim' = IF r.err = "none" THEN r.obj ELSE sim
              /\ sim_fit' = IF r.err = "none" THEN FitAttributes(period)
                            ELSE sim_fit
    /\ UNCHANGED <<pkg, walkVars, sim_calls, particleVars, monitorVars, colVars, mtVars, fitVars, simsVars,
                   cstVars, ldVars>>

\* A call of fit_alpha on the constructed object.
FitAlpha ==
    /\ sim_pc = "constructed"
    /\ sim_raised = "none"
    /\ Len(sim_calls) < MaxCalls
    /\ \E fitting_periods \in FittingPeriods :
          LET r == fit_alpha(sim, sim_fit, fitting_periods)
          IN  /\ sim_fit' = r.fit
              /\ sim_raised' = r.err
              /\ sim_calls' =
                    Append(sim_calls,
                           [method |-> "fit_alpha",
                            fitting_periods |-> fitting_periods,
                            returned |-> <<>>])
    /\ UNCHANGED <<pkg, walkVars, sim, sim_pc, sim_args, particleVars, monitorVars,
                   colVars, mtVars, fitVars, simsVars, cstVars, ldVars>>

\* A read of modelled_population on the constructed object.
ModelledPopulation ==
    /\ sim_pc = "constructed"
    /\ sim_raised = "none"
    /\ Len(sim_calls) < MaxCalls
    /\ LET r == modelled_population(sim, sim_fit)
       IN  /\ sim_fit' = r.fit
           /\ sim_raised' = r.err
           /\ sim_calls' =
                 Append(sim_calls,
                        [method |-> "modelled_population",
                         fitting_periods |-> 0,
                         returned |-> r.returned])
    /\ UNCHANGED <<pkg, walkVars, sim, sim_pc, sim_args, particleVars, monitorVars,
                   colVars, mtVars, fitVars, simsVars, cstVars, ldVars>>

NextSim == Construct \/ FitAlpha \/ ModelledPopulation

SpecSim == InitSim /\ [][NextSim]_vars

IsPrefix(short, long) ==
    /\ Len(short) <= Len(long)
    /\ \A i \in 1..Len(short) : short[i] = long[i]

\* C3: with trim_trailing=True the stored population is the input's prefix
\* that stops right before the first zero sample, the stored time is the
\* input time cut to the same length, and without a zero sample both are the
\* inputs.
C3_TrimIsPrefixBeforeFirstZero ==
    (sim_pc = "constructed" /\ sim_args.trim_trailing) =>
        /\ IsPrefix(sim.population, sim_args.population)
        /\ IsPrefix(sim.time, sim_args.time)
        /\ Len(sim.time) = Len(sim.population)
        /\ \A i \in 1..Len(sim.population) : sim.population[i] # 0
        /\ Len(sim.population) < Len(sim_args.population)
              => sim_args.population[Len(sim.population) + 1] = 0

\* A trimmed result whose input had a zero sample followed by a nonzero one.
C3_Witness ==
    /\ sim_pc = "constructed"
    /\ sim_args.trim_trailing
    /\ sim_args.population = <<2, 0, 1>>
    /\ sim.population = <<2>>

\* C4: time and population of different lengths make the constructor raise
\* ShapeMismatchError, with or without trim_trailing, and no object results.
C4_ShapeMismatchRaises ==
    (sim_pc # "new" /\ Len(sim_args.time) # Len(sim_args.population)) =>
        /\ sim_pc = "raised"
        /\ sim_raised = "ShapeMismatchError"
        /\ sim = <<>>

\* The constructor raised although trimming first would have levelled the
\* two lengths.
C4_Witness ==
    /\ sim_pc = "raised"
    /\ sim_args.trim_trailing
    /\ Len(sim_args.time) = 1
    /\ sim_args.population = <<1, 0>>

\* fit_alpha was called on the object and returned.
FitPerformed ==
    \E i \in 1..Len(sim_calls) :
        /\ sim_calls[i].method = "fit_alpha"
        /\ (i = Len(sim_calls) => sim_raised = "none")

\* C27: a read of modelled_population on an object no fit was performed on
\* raises ValueError.
C27_ReadBeforeFitRaisesValueError ==
    (/\ sim_calls # <<>>
     /\ Last(sim_calls).method = "modelled_population"
     /\ ~FitPerformed)
    => sim_raised = "ValueError"

\* C28: a read of modelled_population that returns gives the curve of the
\* parameters the most recent fit_alpha call stored.
C28_ReadGivesCurveOfLatestFit ==
    (/\ sim_calls # <<>>
     /\ Last(sim_calls).method = "modelled_population"
     /\ sim_raised = "none")
    => Last(sim_calls).returned =
          <<model(sim.time, sim_fit._exp_growth_parameters[1])>>

-----------------------------------------------------------------------------
(* Particle.find_collision and Particle.compute_collision_angle             *)
(*                                                                          *)
(* The particle moves along the z axis: a position is its z coordinate in   *)
(* mm, a momentum or a normal a 3-vector.  The mesh is a fixed list of      *)
(* cells, each a plane patch met by the axis at z, with a normal (its       *)
(* length does not change tan_theta).  Cell ids count from 0.               *)

Cells ==
    <<[z |-> 4, normal |-> <<0, 0, 1>>],
      [z |-> 2, normal |-> <<0, 1, 1>>],
      [z |-> 5, normal |-> <<0, 1, 0>>]>>

Coordinates == {0, 1, 3, 6}
Directions == {<<0, 0, 1>>, <<0, 0, -1>>}

Dot(a, b) == a[1] * b[1] + a[2] * b[2] + a[3] * b[3]

Cross(a, b) ==
    <<a[2] * b[3] - a[3] * b[2],
      a[3] * b[1] - a[1] * b[3],
      a[1] * b[2] - a[2] * b[1]>>

\* The ids of the cells the segment p0-p1 meets (tol=0).
CellsMet(p0, p1) ==
    {i \in 0..(Len(Cells) - 1) :
        \/ p0 <= Cells[i + 1].z /\ Cells[i + 1].z <= p1
        \/ p1 <= Cells[i + 1].z /\ Cells[i + 1].z <= p0}

\* A finite set of cell ids as the list sorted by the distance of the
\* crossing point from p0.
RECURSIVE AlongLine(_, _)
AlongLine(ids, p0) ==
    IF ids = {} THEN <<>>
    ELSE LET first == CHOOSE i \in ids :
                         \A j \in ids :
                            Abs(Cells[i + 1].z - p0) <= Abs(Cells[j + 1].z - p0)
         IN  <<first>> \o AlongLine(ids \ {first}, p0)

\* mesh.intersect_with_line(p0=p0, p1=p1, return_ids=True, tol=0): the
\* crossing points in their order along the line, and the cells they lie in.
intersect_with_line(p0, p1) ==
    LET ids == AlongLine(CellsMet(p0, p1), p0)
    IN  [collision_point |-> [i \in 1..Len(ids) |-> Cells[ids[i] + 1].z],
         collision_cell |-> ids]

\* The value math.atan(tan_theta) is taken of: opposite^2 and |adjacent|;
\* 0/0 is NaN.
Angle(normal, direction) ==
    LET c == Cross(normal, direction)
    IN  [opposite2 |-> Dot(c, c), adjacent |-> Abs(Dot(normal, direction)),
         nan |-> Dot(c, c) = 0 /\ Dot(normal, direction) = 0]

NaNAngle == [opposite2 |-> 0, adjacent |-> 0, nan |-> TRUE]

\* A find_collision that adds what it finds to what the particle holds.
find_collision_accumulates(p, kwargs) ==
    LET first == intersect_with_line(Last(p.pos), p.extrapolated_pos)
    IN  [p |-> [p EXCEPT !.collision_cell_id = @ \o first.collision_cell,
                         !.collision_point = @ \o first.collision_point],
         queries |-> <<<<Last(p.pos), p.extrapolated_pos>>>>]

\* A find_collision that drops the further hits only when it warns of them.
find_collision_trims_when_warning(p, kwargs) ==
    LET p_0 == Last(p.pos)
        p_1 == p.extrapolated_pos
        first == intersect_with_line(p_0, p_1)
        second == intersect_with_line(p.pos[Len(p.pos) - 1], p_0)
        retry == Len(first.collision_point) = 0
        found == IF retry THEN second ELSE first
        queries == IF retry
                   THEN <<<<p_0, p_1>>, <<p.pos[Len(p.pos) - 1], p_0>>>>
                   ELSE <<<<p_0, p_1>>>>
        n == Len(found.collision_point)
    IN  IF p.alive_at_end THEN [p |-> p, queries |-> <<>>]
        ELSE IF Len(p.pos) <= 1 THEN [p |-> p, queries |-> <<>>]
        ELSE IF retry /\ Len(p.pos) <= 2
        THEN [p |-> p, queries |-> <<<<p_0, p_1>>>>]
        ELSE IF kwargs.warn_no_collision /\ n = 0
        THEN [p |-> p, queries |-> queries]
        ELSE IF n > 1 /\ kwargs.warn_multiple_collisions
        THEN [p |-> [p EXCEPT
                        !.collision_cell_id = <<found.collision_cell[1]>>,
                        !.collision_point = <<found.collision_point[1]>>,
                        !.single = TRUE],
              queries |-> queries]
        ELSE [p |-> [p EXCEPT !.collision_cell_id = found.collision_cell,
                              !.collision_point = found.collision_point,
                              !.single = FALSE],
              queries |-> queries]

\* Particle.find_collision: the particle as the call leaves it, and the
\* segments it handed to mesh.intersect_with_line.  p.extrapolated_pos is
\* self.extrapolated_pos[-1].  single tells that collision_point is the one
\* row collision_point[0, :] rather than an array of rows.
find_collision(p, kwargs) ==
    LET p_0 == Last(p.pos)
        p_1 == p.extrapolated_pos
        first == intersect_with_line(p_0, p_1)
        second == intersect_with_line(p.pos[Len(p.pos) - 1], p_0)
        retry == Len(first.collision_point) = 0
        found == IF retry THEN second ELSE first
        queries == IF retry
                   THEN <<<<p_0, p_1>>, <<p.pos[Len(p.pos) - 1], p_0>>>>
                   ELSE <<<<p_0, p_1>>>>
        n == Len(found.collision_point)
    IN  IF p.alive_at_end THEN [p |-> p, queries |-> <<>>]
        ELSE IF Len(p.pos) <= 1 THEN [p |-> p, queries |-> <<>>]
        ELSE IF retry /\ Len(p.pos) <= 2
        THEN [p |-> p, queries |-> <<<<p_0, p_1>>>>]
        ELSE IF kwargs.warn_no_collision /\ n = 0
        THEN [p |-> p, queries |-> queries]
        ELSE IF n > 1
        THEN [p |-> [p EXCEPT
                        !.collision_cell_id = <<found.collision_cell[1]>>,
                        !.collision_point = <<found.collision_point[1]>>,
                        !.single = TRUE],
              queries |-> queries]
        ELSE [p |-> [p EXCEPT !.collision_cell_id = found.collision_cell,
                              !.collision_point = found.collision_point,
                              !.single = FALSE],
              queries |-> queries]

\* Particle.compute_collision_angle.
compute_collision_angle(p) ==
    IF p.alive_at_end THEN p
    ELSE IF Len(p.collision_cell_id) < 1 THEN p
    ELSE [p EXCEPT !.collision_angle =
             Angle(Cells[p.collision_cell_id[1] + 1].normal, Last(p.mom))]

\* The particles handed to the detector: finalized (positions recorded in
\* the order of time) and extrapolated (the extrapolated position lies from
\* the last recorded one in the direction of the last momentum, or on it).
DetectorParticles ==
    {[alive_at_end |-> alive, pos |-> pos, mom |-> <<direction>>,
      extrapolated_pos |-> extrapolated_pos,
      collision_cell_id |-> <<>>, collision_point |-> <<>>,
      single |-> FALSE, collision_angle |-> NaNAngle] :
        alive \in BOOLEAN,
        pos \in UNION {[1..n -> Coordinates] : n \in 1..MaxPositions},
        direction \in Directions,
        extrapolated_pos \in Coordinates}

InitCollision ==
    /\ pkg = "simultipac"
    /\ col_particle \in
          {p \in DetectorParticles :
              (p.extrapolated_pos - Last(p.pos)) * Last(p.mom)[3] >= 0}
    /\ col_kwargs \in [warn_no_collision : BOOLEAN,
                       warn_multiple_collisions : BOOLEAN]
    /\ col_queries = <<>>
    /\ col_runs = 0
    /\ col_first = <<>>
    /\ ParticleIdle /\ MonitorIdle /\ SimIdle /\ MtIdle /\ FitIdle
    /\ SimsIdle /\ CstIdle /\ LdIdle /\ WalkIdle

\* The fields the detector fills.
CollisionFields(p) ==
    <<p.collision_cell_id, p.collision_point, p.single, p.collision_angle>>

\* ParticleMonitor.compute_collision_angles, for the one particle.
ComputeCollisionAngles ==
    /\ col_runs < MaxRuns
    /\ LET f == find_collision(col_particle, col_kwargs)
           p == compute_collision_angle(f.p)
       IN  /\ col_particle' = p
           /\ col_queries' = f.queries
           /\ col_first' = IF col_runs = 0 THEN CollisionFields(p)
                           ELSE col_first
    /\ col_runs' = col_runs + 1
    /\ UNCHANGED <<pkg, walkVars, col_kwargs, particleVars, monitorVars, simVars,
                   mtVars, fitVars, simsVars,
                   cstVars, ldVars>>

NextCollision == ComputeCollisionAngles

SpecCollision == InitCollision /\ [][NextCollision]_vars

\* C7: for a particle that is not alive at end and has at least 2 recorded
\* positions, when the segment from the last recorded to the last
\* extrapolated position meets no cell, find_collision asks the mesh a
\* second time, about the segment from the second-to-last to the last
\* recorded position.
C7_FallbackWithTwoPositions ==
    (/\ col_runs >= 1
     /\ ~col_particle.alive_at_end
     /\ Len(col_particle.pos) >= 2
     /\ CellsMet(Last(col_particle.pos), col_particle.extrapolated_pos) = {})
    => /\ Len(col_queries) = 2
       /\ col_queries[2] = <<col_particle.pos[Len(col_particle.pos) - 1],
                             Last(col_particle.pos)>>

\* C9: a further run of compute_collision_angles on the same particle and
\* mesh leaves collision_cell_id, collision_point and collision_angle as the
\* first run left them.
C9_RerunKeepsCollisionFields ==
    col_runs >= 1 => CollisionFields(col_particle) = col_first

\* A second run on a particle for which a cell, a point and an angle were
\* found.
C9_Witness ==
    /\ col_runs = 2
    /\ Len(col_particle.collision_cell_id) = 1
    /\ ~col_particle.collision_angle.nan
    /\ col_particle.collision_angle.opposite2 > 0

\* What the mesh gave for the last segment find_collision asked about.
LastFound ==
    LET q == Last(col_queries)
    IN  intersect_with_line(q[1], q[2])

-----------------------------------------------------------------------------
(* part_mesh_intersections (legacy collision.py)                            *)
(*                                                                          *)
(* Coordinates are integers.  A float that the code gets as x * (1 / d) is  *)
(* the pair [num, den] with den >= 0: den = 0 is an infinity of the sign of *)
(* num, or NaN when num = 0 as well (a zero determinant counted as +0.0).   *)

Sub(a, b) == <<a[1] - b[1], a[2] - b[2], a[3] - b[3]>>

Sign(x) == IF x < 0 THEN -1 ELSE 1

Zero == [num |-> 0, den |-> 1]
One == [num |-> 1, den |-> 1]
NaN == [num |-> 0, den |-> 0]

IsNaN(a) == a.num = 0 /\ a.den = 0

\* x * inv_triple_prod
Quot(x, d) == [num |-> x * Sign(d), den |-> Abs(d)]

\* a < b on floats: False when either is NaN
Less(a, b) == ~IsNaN(a) /\ ~IsNaN(b) /\ a.num * b.den < b.num * a.den

\* a + b on floats
Plus(a, b) ==
    IF IsNaN(a) \/ IsNaN(b) THEN NaN
    ELSE IF a.den = 0 /\ b.den = 0
    THEN (IF Sign(a.num) = Sign(b.num) THEN a ELSE NaN)
    ELSE [num |-> a.num * b.den + b.num * a.den, den |-> a.den * b.den]

\* structure: v0, v1, v2 of each triangular cell
Triangles ==
    <<[v0 |-> <<0, 0, 2>>, v1 |-> <<2, 0, 2>>, v2 |-> <<0, 2, 2>>],
      [v0 |-> <<0, 0, 4>>, v1 |-> <<1, 0, 4>>, v2 |-> <<0, 1, 5>>]>>

Origins == {<<x, y, z>> : x \in 0..MaxCoordinate, y \in 0..MaxCoordinate,
                          z \in 0..MaxCoordinate}
RayDirections == {<<0, 0, 1>>, <<0, 0, -1>>, <<1, 0, 0>>, <<0, 1, 0>>}
EpsValues == {[num |-> 1, den |-> 1000000], One}

edges_1(tri) == Sub(tri.v1, tri.v0)
edges_2(tri) == Sub(tri.v2, tri.v0)
normals(tri) == Cross(edges_1(tri), edges_2(tri))

pvec(direction, tri) == Cross(direction, edges_2(tri))
triple_products(direction, tri) == Dot(edges_1(tri), pvec(direction, tri))
tvec(orig, tri) == Sub(orig, tri.v0)
qvec(orig, tri) == Cross(tvec(orig, tri), edges_1(tri))

u_coord(orig, direction, tri) ==
    Quot(Dot(tvec(orig, tri), pvec(direction, tri)),
         triple_products(direction, tri))

v_coord(orig, direction, tri) ==
    Quot(Dot(direction, qvec(orig, tri)), triple_products(direction, tri))

distance(orig, direction, tri) ==
    Quot(Dot(edges_2(tri), qvec(orig, tri)), triple_products(direction, tri))

\* The masks without the one on the distance.
no_collision_idx_any_distance(orig, direction, tri, eps) ==
    LET u == u_coord(orig, direction, tri)
        v == v_coord(orig, direction, tri)
    IN  \/ Less([num |-> Abs(triple_products(direction, tri)), den |-> 1], eps)
        \/ Less(u, Zero) \/ Less(One, u)
        \/ Less(v, Zero) \/ Less(One, Plus(u, v))

\* Whether one of the four no_collision_idx masks clears the entry.
no_collision_idx(orig, direction, tri, eps) ==
    LET u == u_coord(orig, direction, tri)
        v == v_coord(orig, direction, tri)
    IN  \/ Less([num |-> Abs(triple_products(direction, tri)), den |-> 1], eps)
        \/ Less(u, Zero) \/ Less(One, u)
        \/ Less(v, Zero) \/ Less(One, Plus(u, v))
        \/ Less(distance(orig, direction, tri), eps)

\* collisions of one particle
collisions(orig, direction, eps) ==
    [j \in 1..Len(Triangles) |->
        ~no_collision_idx(orig, direction, Triangles[j], eps)]

\* np.linalg.norm(np.cross(structure.normals[collisions], direction)) ** 2:
\* one number, over the cells 1..j the particle collides with
RECURSIVE opposites2(_, _, _)
opposites2(c, direction, j) ==
    IF j = 0 THEN 0
    ELSE opposites2(c, direction, j - 1)
         + (IF c[j]
            THEN LET x == Cross(normals(Triangles[j]), direction)
                 IN  Dot(x, x)
            ELSE 0)

\* Row i of all_collisions, all_distances and all_impact_angles.
part_mesh_intersections(orig, direction, eps) ==
    LET c == collisions(orig, direction, eps)
    IN  [j \in 1..Len(Triangles) |->
            [collision |-> c[j],
             distance |-> IF c[j] THEN distance(orig, direction, Triangles[j])
                          ELSE NaN,
             impact_angle |->
                IF c[j]
                THEN [opposite2 |-> opposites2(c, direction, Len(Triangles)),
                      adjacent |->
                          Abs(Dot(normals(Triangles[j]), direction)),
                      nan |-> FALSE]
                ELSE NaNAngle]]

InitMT ==
    /\ pkg = "multipactor"
    /\ mt_args \in [orig : Origins, direction : RayDirections, eps : EpsValues]
    /\ mt_pc = "call"
    /\ mt_out = <<>>
    /\ ParticleIdle /\ MonitorIdle /\ SimIdle /\ ColIdle /\ FitIdle
    /\ SimsIdle /\ CstIdle /\ LdIdle /\ WalkIdle

PartMeshIntersections ==
    /\ mt_pc = "call"
    /\ mt_out' = part_mesh_intersections(mt_args.orig, mt_args.direction,
                                         mt_args.eps)
    /\ mt_pc' = "returned"
    /\ UNCHANGED <<pkg, walkVars, mt_args, particleVars, monitorVars, simVars, colVars,
                   fitVars, simsVars,
                   cstVars, ldVars>>

NextMT == PartMeshIntersections

SpecMT == InitMT /\ [][NextMT]_vars

\* The determinant of triangle j for the ray of the call, and the
\* numerators of u, v and t over its absolute value.
DetOf(j) == triple_products(mt_args.direction, Triangles[j])
UNum(j) ==
    Sign(DetOf(j)) * Dot(tvec(mt_args.orig, Triangles[j]),
                         pvec(mt_args.direction, Triangles[j]))
VNum(j) ==
    Sign(DetOf(j)) * Dot(mt_args.direction, qvec(mt_args.orig, Triangles[j]))
TNum(j) ==
    Sign(DetOf(j)) * Dot(edges_2(Triangles[j]),
                         qvec(mt_args.orig, Triangles[j]))

\* 0 <= u <= 1, 0 <= v <= 1, u + v <= 1 and t >= eps
InsideAndAhead(j) ==
    /\ 0 <= UNum(j) /\ UNum(j) <= Abs(DetOf(j))
    /\ 0 <= VNum(j) /\ VNum(j) <= Abs(DetOf(j))
    /\ UNum(j) + VNum(j) <= Abs(DetOf(j))
    /\ TNum(j) * mt_args.eps.den >= mt_args.eps.num * Abs(DetOf(j))

\* C8 as stated: the entry is a collision exactly when |det| > eps,
\* 0 <= u <= 1, 0 <= v <= 1, u + v <= 1 and t lies in [eps, length of the
\* segment from the origin along the direction vector]; every other entry
\* is False with a NaN distance.
C8_CollisionWithinSegment ==
    mt_pc = "returned" =>
        \A j \in 1..Len(Triangles) :
            /\ mt_out[j].collision <=>
                  /\ Abs(DetOf(j)) * mt_args.eps.den > mt_args.eps.num
                  /\ InsideAndAhead(j)
                  /\ TNum(j) <= Abs(DetOf(j))
            /\ ~mt_out[j].collision => IsNaN(mt_out[j].distance)

\* C8, amended: the entry is a collision exactly when |det| >= eps,
\* 0 <= u <= 1, 0 <= v <= 1, u + v <= 1 and t >= eps, however far along the
\* ray; every other entry is False with a NaN distance, and the call returns.
C8_CollisionAlongRay ==
    mt_pc = "returned" =>
        \A j \in 1..Len(Triangles) :
            /\ mt_out[j].collision <=>
                  /\ Abs(DetOf(j)) * mt_args.eps.den >= mt_args.eps.num
                  /\ InsideAndAhead(j)
            /\ ~mt_out[j].collision => IsNaN(mt_out[j].distance)

\* A collision found beyond the end of the direction vector.
C8_Witness ==
    /\ mt_pc = "returned"
    /\ \E j \in 1..Len(Triangles) :
          /\ mt_out[j].collision
          /\ TNum(j) > Abs(DetOf(j))
          /\ ~IsNaN(mt_out[j].distance)

\* C29: the impact angle of the particle on a triangle it collides with is
\* the angle between its direction and the normal of that triangle, whatever
\* other triangles it collides with, and the angle is NaN exactly on the
\* triangles it does not collide with.
C29_AngleOfOwnTriangleOnly ==
    mt_pc = "returned" =>
        \A j \in 1..Len(Triangles) :
            IF mt_out[j].collision
            THEN mt_out[j].impact_angle =
                    LET x == Cross(normals(Triangles[j]), mt_args.direction)
                    IN  [opposite2 |-> Dot(x, x),
                         adjacent |-> Abs(Dot(normals(Triangles[j]),
                                              mt_args.direction)),
                         nan |-> FALSE]
            ELSE mt_out[j].impact_angle.nan

-----------------------------------------------------------------------------
(* exp_growth.fit_all and exp_growth._fit_single                            *)
(*                                                                          *)
(* A curve is the list of its populations; times are in units of 0.2 ns and *)
(* sample i is taken at time SampleStep * (i - 1).  The period handed to    *)
(* fit_all is one sampling step at least, so that the running mean has a    *)
(* window.  What scipy's curve_fit does with the window is an         *)
(* outcome: it returns parameters ("converged"), it cannot estimate the     *)
(* covariance (OptimizeWarning, an error under the module's warning         *)
(* filter), or it does not find parameters within maxfev evaluations        *)
(* (RuntimeError).  Fitted numbers are the string "fitted".                 *)

FitKeys == <<"k1", "k2">>
FitPopulations == {0, 5, 20}
FittingRanges == {5, 25}
Periods == {1, 5}

\* data[i, 0]
TimeOf(i) == SampleStep * (i - 1)
Outcomes == {"converged", "OptimizeWarning", "RuntimeError"}

Curves == [1..MaxSamples -> FitPopulations]

\* np.where(data[:, 1])[0][-1], counted from 1; 0 when there is none
idx_end(data) ==
    IF \A i \in 1..Len(data) : data[i] = 0 THEN 0
    ELSE MaxOf({i \in 1..Len(data) : data[i] # 0})

\* data[idx_end, 0] - fitting_range
t_start(data, fitting_range) == TimeOf(idx_end(data)) - fitting_range

\* np.argmin(np.abs(data[:, 0] - t_start)), counted from 1
idx_start(data, fitting_range) ==
    CHOOSE i \in 1..Len(data) :
        /\ \A j \in 1..Len(data) :
              Abs(TimeOf(i) - t_start(data, fitting_range))
                 <= Abs(TimeOf(j) - t_start(data, fitting_range))
        /\ \A j \in 1..(i - 1) :
              Abs(TimeOf(j) - t_start(data, fitting_range))
                 > Abs(TimeOf(i) - t_start(data, fitting_range))

\* Whether _fit_single gets as far as curve_fit with finite data_to_fit.
CurveFitRuns(data, fitting_range, skip_obvious) ==
    /\ ~(skip_obvious /\ Last(data) < SkipBelow)
    /\ idx_end(data) # 0
    /\ \A i \in idx_start(data, fitting_range)..idx_end(data) : data[i] # 0

\* modelled[:, 1] with the model's values over the fit window
Modelled(data, fitting_range, value) ==
    [i \in 1..Len(data) |->
        IF idx_start(data, fitting_range) <= i /\ i <= idx_end(data)
        THEN value ELSE "nan"]

\* _fit_single(str_model, data, period, fitting_range): what it returns, or
\* the exception that leaves it; fit_parameters None is the empty tuple.
\* np.log of a zero population in the window
\* is -inf, which curve_fit's finiteness check rejects with ValueError.
_fit_single(data, fitting_range, skip_obvious, outcome) ==
    IF skip_obvious /\ Last(data) < SkipBelow
    THEN [modelled |-> [i \in 1..Len(data) |-> "nan"],
          fit_parameters |-> <<>>, err |-> "none"]
    ELSE IF idx_end(data) = 0
    THEN [modelled |-> <<>>, fit_parameters |-> <<>>, err |-> "IndexError"]
    ELSE IF ~CurveFitRuns(data, fitting_range, skip_obvious)
    THEN [modelled |-> <<>>, fit_parameters |-> <<>>, err |-> "ValueError"]
    ELSE IF outcome = "RuntimeError"
    THEN [modelled |-> <<>>, fit_parameters |-> <<>>, err |-> "RuntimeError"]
    ELSE IF outcome = "OptimizeWarning"
    THEN [modelled |-> Modelled(data, fitting_range, "nan"),
          fit_parameters |-> [N0 |-> "nan", alpha |-> "nan",
                              t_start |-> t_start(data, fitting_range)],
          err |-> "none"]
    ELSE [modelled |-> Modelled(data, fitting_range, "fitted"),
          fit_parameters |-> [N0 |-> "fitted", alpha |-> "fitted",
                              t_start |-> t_start(data, fitting_range)],
          err |-> "none"]

\* np.argmin(np.abs(population_evolution[:, 1] - 10.0)), counted from 1
idx_near_ten(data) ==
    CHOOSE i \in 1..Len(data) :
        /\ \A j \in 1..Len(data) :
              Abs(data[i] - SkipBelow) <= Abs(data[j] - SkipBelow)
        /\ \A j \in 1..(i - 1) :
              Abs(data[j] - SkipBelow) > Abs(data[i] - SkipBelow)

\* idx_end of _fit_single_spark
idx_end_spark(data) == Min(idx_end(data), idx_near_ten(data))

t_lim(period) == PeriodsBeforeFit * period

\* t_start of _fit_single_spark, after `if t_start < t_lim`
t_start_spark(data, fitting_range, period) ==
    IF TimeOf(idx_end_spark(data)) - fitting_range < t_lim(period)
    THEN t_lim(period)
    ELSE TimeOf(idx_end_spark(data)) - fitting_range

\* idx_start of _fit_single_spark
idx_start_spark(data, fitting_range, period) ==
    CHOOSE i \in 1..Len(data) :
        /\ \A j \in 1..Len(data) :
              Abs(TimeOf(i) - t_start_spark(data, fitting_range, period))
                 <= Abs(TimeOf(j) - t_start_spark(data, fitting_range, period))
        /\ \A j \in 1..(i - 1) :
              Abs(TimeOf(j) - t_start_spark(data, fitting_range, period))
                 > Abs(TimeOf(i) - t_start_spark(data, fitting_range, period))

\* Whether _fit_single_spark gets as far as curve_fit with finite data.
CurveFitRunsSpark(data, fitting_range, period) ==
    /\ idx_end(data) # 0
    /\ idx_start_spark(data, fitting_range, period) <= idx_end_spark(data)
    /\ \A i \in idx_start_spark(data, fitting_range, period)
                   ..idx_end_spark(data) : data[i] # 0

ModelledSpark(data, fitting_range, period, value) ==
    [i \in 1..Len(data) |->
        IF /\ idx_start_spark(data, fitting_range, period) <= i
           /\ i <= idx_end_spark(data)
        THEN value ELSE "nan"]

\* _fit_single_spark(str_model, population_evolution, fitting_range, period,
\* e_acc=...): an empty window gives the IndexError its except clause takes.
_fit_single_spark(data, fitting_range, period, outcome) ==
    LET start == t_start_spark(data, fitting_range, period)
        empty == idx_start_spark(data, fitting_range, period)
                    > idx_end_spark(data)
    IN  IF idx_end(data) = 0
        THEN [modelled |-> <<>>, fit_parameters |-> <<>>,
              err |-> "IndexError"]
        ELSE IF empty \/ (CurveFitRunsSpark(data, fitting_range, period)
                          /\ outcome = "OptimizeWarning")
        THEN [modelled |-> ModelledSpark(data, fitting_range, period, "nan"),
              fit_parameters |-> [N0 |-> "nan", alpha |-> "nan",
                                  t_start |-> start],
              err |-> "none"]
        ELSE IF ~CurveFitRunsSpark(data, fitting_range, period)
        THEN [modelled |-> <<>>, fit_parameters |-> <<>>,
              err |-> "ValueError"]
        ELSE IF outcome = "RuntimeError"
        THEN [modelled |-> <<>>, fit_parameters |-> <<>>,
              err |-> "RuntimeError"]
        ELSE [modelled |->
                  ModelledSpark(data, fitting_range, period, "fitted"),
              fit_parameters |-> [N0 |-> "fitted", alpha |-> "fitted",
                                  t_start |-> start],
              err |-> "none"]

\* What fit_all, fit_all_spark and _fit_single were called with.  The period
\* of fit_all and _fit_single is one sampling step; fit_all leaves
\* skip_obvious to its default, True, and _fit_single_spark has none.
FitCalls ==
    {[fn |-> "fit_all", fitting_range |-> range, period |-> SampleStep,
      skip_obvious |-> TRUE] :
        range \in FittingRanges}
    \cup {[fn |-> "fit_all_spark", fitting_range |-> range,
           period |-> period, skip_obvious |-> FALSE] :
             range \in FittingRanges, period \in Periods}
    \cup {[fn |-> "_fit_single", fitting_range |-> range,
           period |-> SampleStep, skip_obvious |-> skip_obvious] :
             range \in FittingRanges, skip_obvious \in BOOLEAN}

InitFit ==
    /\ pkg = "simultipac"
    /\ \E curves \in [1..Len(FitKeys) -> Curves], call \in FitCalls :
          fit_data = [fn |-> call.fn,
                      fitting_range |-> call.fitting_range,
                      period |-> call.period,
                      skip_obvious |-> call.skip_obvious,
                      val |-> [k \in 1..Len(FitKeys) |->
                                  [population |-> curves[k],
                                   modelled |-> <<>>,
                                   alpha |-> "unset"]]]
    /\ fit_i = 0
    /\ fit_outcomes = <<>>
    /\ fit_raised = "none"
    /\ fit_returned = <<>>
    /\ fit_p0 = <<>>
    /\ ParticleIdle /\ MonitorIdle /\ SimIdle /\ ColIdle /\ MtIdle
    /\ SimsIdle /\ CstIdle /\ LdIdle /\ WalkIdle

\* initial_values[0] = data_to_fit[0, 0], raised to bounds[0][0] when below
\* it: column 0 of the window is the time column.
initial_value(data, first) ==
    IF TimeOf(first) <= 0
    THEN [m |-> 1, e |-> LowerBoundExp]
    ELSE [m |-> TimeOf(first), e |-> 0]

\* What one turn of either loop does with what the fit function gave; p0 is
\* the tuple of the initial_values[0] of the calls of curve_fit, empty when
\* there was none.
StoreFit(k, r, outcome, p0) ==
    /\ fit_outcomes' = Append(fit_outcomes, outcome)
    /\ fit_p0' = Append(fit_p0, p0)
    /\ fit_raised' = r.err
    /\ fit_returned' =
          IF r.err # "none" THEN fit_returned
          ELSE Append(fit_returned,
                      IF r.fit_parameters = <<>>
                      THEN [none |-> TRUE, t_start |-> 0]
                      ELSE [none |-> FALSE,
                            t_start |-> r.fit_parameters.t_start])
    /\ fit_data' =
          IF r.err # "none" THEN fit_data
          ELSE [fit_data EXCEPT
                   !.val[k].modelled = r.modelled,
                   !.val[k].alpha = IF r.fit_parameters = <<>> THEN "nan"
                                    ELSE r.fit_parameters.alpha]
    /\ fit_i' = fit_i + 1
    /\ UNCHANGED <<pkg, walkVars, particleVars, monitorVars, simVars, colVars, mtVars,
                   simsVars, cstVars, ldVars>>

\* One turn of the loop of fit_all, on the next key of data.
FitNext ==
    /\ fit_data.fn = "fit_all"
    /\ fit_raised = "none"
    /\ fit_i < Len(FitKeys)
    /\ LET k == fit_i + 1
           data == fit_data.val[k].population
       IN  \E outcome \in
                 IF CurveFitRuns(data, fit_data.fitting_range, TRUE)
                 THEN Outcomes ELSE {"not called"} :
              StoreFit(k, _fit_single(data, fit_data.fitting_range, TRUE,
                                      outcome), outcome,
                       IF outcome = "not called" THEN <<>>
                       ELSE <<initial_value(
                                 data,
                                 idx_start(data, fit_data.fitting_range))>>)

\* One turn of the loop of fit_all_spark.
FitNextSpark ==
    /\ fit_data.fn = "fit_all_spark"
    /\ fit_raised = "none"
    /\ fit_i < Len(FitKeys)
    /\ LET k == fit_i + 1
           data == fit_data.val[k].population
       IN  \E outcome \in
                 IF CurveFitRunsSpark(data, fit_data.fitting_range,
                                      fit_data.period)
                 THEN Outcomes ELSE {"not called"} :
              StoreFit(k, _fit_single_spark(data, fit_data.fitting_range,
                                            fit_data.period, outcome),
                       outcome,
                       IF outcome = "not called" THEN <<>>
                       ELSE <<initial_value(
                                 data,
                                 idx_start_spark(data, fit_data.fitting_range,
                                                 fit_data.period))>>)

\* _fit_single called on the next curve by a caller of its own, which
\* stores nothing in data.
FitSingle ==
    /\ fit_data.fn = "_fit_single"
    /\ fit_raised = "none"
    /\ fit_i < Len(FitKeys)
    /\ LET k == fit_i + 1
           data == fit_data.val[k].population
       IN  \E outcome \in
                 IF CurveFitRuns(data, fit_data.fitting_range,
                                 fit_data.skip_obvious)
                 THEN Outcomes ELSE {"not called"} :
              LET r == _fit_single(data, fit_data.fitting_range,
                                   fit_data.skip_obvious, outcome)
              IN  /\ fit_outcomes' = Append(fit_outcomes, outcome)
                  /\ fit_raised' = r.err
                  /\ fit_returned' =
                        IF r.err # "none" THEN fit_returned
                        ELSE Append(fit_returned,
                                    IF r.fit_parameters = <<>>
                                    THEN [none |-> TRUE, t_start |-> 0]
                                    ELSE [none |-> FALSE,
                                          t_start |->
                                              r.fit_parameters.t_start])
                  /\ fit_p0' =
                        Append(fit_p0,
                               IF outcome = "not called" THEN <<>>
                               ELSE <<initial_value(
                                         data,
                                         idx_start(data,
                                                   fit_data.fitting_range))>>)
    /\ fit_i' = fit_i + 1
    /\ UNCHANGED <<pkg, walkVars, fit_data, particleVars, monitorVars, simVars,
                   colVars, mtVars, simsVars, cstVars, ldVars>>

NextFit == FitNext \/ FitNextSpark \/ FitSingle

SpecFit == InitFit /\ [][NextFit]_vars

\* C10: when curve_fit does not find parameters within its evaluation
\* budget, no exception leaves _fit_single or fit_all, and fit_all has
\* stored for that key an alpha of NaN and a modelled curve that is NaN over
\* the fit window.
C10_NonConvergenceGivesNaN ==
    \A k \in 1..Len(fit_outcomes) :
        fit_outcomes[k] = "RuntimeError" =>
            /\ fit_raised = "none"
            /\ fit_data.val[k].alpha = "nan"
            /\ fit_data.val[k].modelled =
                  Modelled(fit_data.val[k].population,
                           fit_data.fitting_range, "nan")

\* C11: the t_start returned with the fit parameters is never below the
\* lower limit of the fit start: 0 in _fit_single, 5 periods in
\* _fit_single_spark.
C11_FitStartClamped ==
    \A k \in 1..Len(fit_returned) :
        ~fit_returned[k].none =>
            fit_returned[k].t_start >=
                (IF fit_data.fn # "fit_all_spark" THEN 0
                 ELSE t_lim(fit_data.period))

\* The first row of the fit window of key k, counted from 1.
WindowStart(k) ==
    IF fit_data.fn # "fit_all_spark"
    THEN idx_start(fit_data.val[k].population, fit_data.fitting_range)
    ELSE idx_start_spark(fit_data.val[k].population, fit_data.fitting_range,
                         fit_data.period)

\* C21: the initial guess of N0 handed to curve_fit is the population of
\* the first sample of the fit window (at least 1 there, so above the lower
\* bound 1e-10 of N0).  With a period of one sampling step the running mean
\* of fit_all spans one sample and leaves the sample as it is.
C21_InitialGuessIsFirstPopulation ==
    \A k \in 1..Len(fit_p0) :
        fit_p0[k] # <<>> =>
            fit_p0[k][1] =
                [m |-> fit_data.val[k].population[WindowStart(k)], e |-> 0]

\* C26: a curve without a nonzero sample, handed to _fit_single with
\* skip_obvious off or to _fit_single_spark, is not answered with an index
\* or arithmetic exception.
C26_AllZeroCurveNoIndexError ==
    (/\ fit_i >= 1
     /\ \/ fit_data.fn = "fit_all_spark"
        \/ fit_data.fn = "_fit_single" /\ ~fit_data.skip_obvious
     /\ \A i \in 1..MaxSamples : fit_data.val[fit_i].population[i] = 0)
    => fit_raised \notin {"IndexError", "ZeroDivisionError",
                          "FloatingPointError"}

-----------------------------------------------------------------------------
(* SimulationsResults                                                       *)
(*                                                                          *)
(* A SimulationResults is its id and its e_acc.  _results_by_id, a dict, is *)
(* the list of its values in the order of insertion, keyed by their id.     *)

ResultIds == {0, 1, 2, 3}
EAccValues == {0, 1, 2}
Results == [id : ResultIds, e_acc : EAccValues]

\* result_id in self._results_by_id
HasId(by_id, result_id) == \E i \in 1..Len(by_id) : by_id[i].id = result_id

\* bisect.bisect_right(a, x, lo, hi, key=lambda r: r.e_acc), places counted
\* from 0
RECURSIVE bisect_right(_, _, _, _)
bisect_right(a, x, lo, hi) ==
    IF lo < hi
    THEN LET mid == (lo + hi) \div 2
         IN  IF x < a[mid + 1].e_acc THEN bisect_right(a, x, lo, mid)
             ELSE bisect_right(a, x, mid + 1, hi)
    ELSE lo

\* An insort that puts the result at the end.
insort_appends(a, result) == Append(a, result)

\* bisect.insort(self._results, result, key=lambda r: r.e_acc)
insort(a, result) ==
    LET lo == bisect_right(a, result.e_acc, 0, Len(a))
    IN  SubSeq(a, 1, lo) \o <<result>> \o SubSeq(a, lo + 1, Len(a))

\* An _add that stores the result before it looks for its id.
_add_stores_then_checks(by_id, results, result) ==
    [by_id |-> Append(by_id, result), results |-> insort(results, result),
     raised |-> IF HasId(by_id, result.id) THEN "DuplicateIndexError"
                ELSE "none"]

\* SimulationsResults._add
_add(by_id, results, result) ==
    IF HasId(by_id, result.id)
    THEN [by_id |-> by_id, results |-> results,
          raised |-> "DuplicateIndexError"]
    ELSE [by_id |-> Append(by_id, result), results |-> insort(results, result),
          raised |-> "none"]

\* A get_by_id that gives None for an id it does not hold.
get_by_id_or_none(by_id, result_id) ==
    [ret |-> SelectSeq(by_id, LAMBDA r : r.id = result_id),
     raised |-> "none"]

\* SimulationsResults.get_by_id: ret holds the result returned.
get_by_id(by_id, result_id) ==
    IF HasId(by_id, result_id)
    THEN [ret |-> SelectSeq(by_id, LAMBDA r : r.id = result_id),
          raised |-> "none"]
    ELSE [ret |-> <<>>, raised |-> "NonExistingIDError"]

\* SimulationsResults.__init__ before its loop over simulations_results.
InitSims ==
    /\ pkg = "simultipac"
    /\ sims_by_id = <<>>
    /\ sims_results = <<>>
    /\ sims_call = [op |-> "__init__", id |-> 0, result |-> <<>>,
                    raised |-> "none", ret |-> <<>>]
    /\ sims_before = [by_id |-> <<>>, results |-> <<>>]
    /\ ParticleIdle /\ MonitorIdle /\ SimIdle /\ ColIdle /\ MtIdle /\ FitIdle
    /\ CstIdle /\ LdIdle /\ WalkIdle

\* self._add(x), in the loop of __init__ or later.
Add ==
    /\ Len(sims_results) < MaxResults
    /\ \E result \in Results :
          LET r == _add(sims_by_id, sims_results, result)
          IN  /\ sims_by_id' = r.by_id
              /\ sims_results' = r.results
              /\ sims_call' = [op |-> "_add", id |-> result.id,
                               result |-> <<result>>, raised |-> r.raised,
                               ret |-> <<>>]
    /\ sims_before' = [by_id |-> sims_by_id, results |-> sims_results]
    /\ UNCHANGED <<pkg, walkVars, particleVars, monitorVars, simVars, colVars, mtVars,
                   fitVars, cstVars, ldVars>>

GetById ==
    /\ \E result_id \in ResultIds :
          LET r == get_by_id(sims_by_id, result_id)
          IN  sims_call' = [op |-> "get_by_id", id |-> result_id,
                            result |-> <<>>, raised |-> r.raised,
                            ret |-> r.ret]
    /\ sims_before' = [by_id |-> sims_by_id, results |-> sims_results]
    /\ UNCHANGED <<pkg, walkVars, sims_by_id, sims_results, particleVars, monitorVars,
                   simVars, colVars, mtVars, fitVars, cstVars, ldVars>>

\* to_list, and iter(self).
ToList ==
    /\ sims_call' = [op |-> "to_list", id |-> 0, result |-> <<>>,
                     raised |-> "none", ret |-> sims_results]
    /\ sims_before' = [by_id |-> sims_by_id, results |-> sims_results]
    /\ UNCHANGED <<pkg, walkVars, sims_by_id, sims_results, particleVars, monitorVars,
                   simVars, colVars, mtVars, fitVars, cstVars, ldVars>>

NextSims == Add \/ GetById \/ ToList

SpecSims == InitSims /\ [][NextSims]_vars

SameResults(a, b) ==
    /\ Len(a) = Len(b)
    /\ {a[i] : i \in 1..Len(a)} = {b[i] : i \in 1..Len(b)}

C15_DuplicateIdRejected ==
    (sims_call.op = "_add" /\ HasId(sims_before.by_id, sims_call.id)) =>
        /\ sims_call.raised = "DuplicateIndexError"
        /\ sims_by_id = sims_before.by_id
        /\ sims_results = sims_before.results

\* An _add of a stored id with another e_acc, on a collection of two.
C15_Witness ==
    /\ sims_call.op = "_add"
    /\ Len(sims_before.by_id) = 2
    /\ \E i \in 1..2 :
          /\ sims_before.by_id[i].id = sims_call.id
          /\ sims_before.by_id[i].e_acc # sims_call.result[1].e_acc
    /\ sims_call.raised = "DuplicateIndexError"

-----------------------------------------------------------------------------
(* CSTResultsFactory                                                        *)
(*                                                                          *)
(* raw_results is the dict mmdd_xxxxxxx_folder_to_dict gives: file names    *)
(* without extension to file contents.  A field value is m * 10^e.  "None"  *)
(* is Python's None.                                                        *)

_parameters_file == "Parameters.txt"
_time_population_file == "Particle vs. Time.txt"
DefaultEAccParameter == <<"E_acc", "e_acc", "accelerating_field">>
DefaultEAccFile == "E_acc in MV per m.txt"
PRmsFile == "P_rms.txt"

\* simultipac.cst.helper.no_extension, on the file names of the model
no_extension(filename) ==
    CASE filename = "Parameters.txt" -> "Parameters"
      [] filename = "Particle vs. Time.txt" -> "Particle vs. Time"
      [] filename = "E_acc in MV per m.txt" -> "E_acc in MV per m"
      [] filename = "P_rms.txt" -> "P_rms"

Factories ==
    [e_acc_parameter : {DefaultEAccParameter, <<>>},
     e_acc_file_mv_m : {DefaultEAccFile},
     p_rms_file : {"None", PRmsFile}]

FieldValues == {[m |-> 5, e |-> 0], [m |-> 12, e |-> 0]}
ParameterNames == {"E_acc", "accelerating_field", "B_field"}
ParameterDicts ==
    UNION {[names -> FieldValues] : names \in SUBSET ParameterNames}
PartTimes ==
    {<<<<0, 1000>>, <<1, 900>>, <<2, 500>>>>, <<<<0, 10>>, <<1, 0>>>>}
RawKeys == {"Parameters", "Particle vs. Time", "E_acc in MV per m", "P_rms"}

\* dict.pop(key): the dict without the key
Pop(dict, key) == [k \in (DOMAIN dict) \ {key} |-> dict[k]]

\* Mandatory files that always count the file of the accelerating field.
mandatory_files_with_field_file(factory) ==
    {_parameters_file, _time_population_file, factory.e_acc_file_mv_m}

\* CSTResultsFactory.mandatory_files
mandatory_files(factory) ==
    IF Len(factory.e_acc_parameter) = 0
    THEN {_parameters_file, _time_population_file, factory.e_acc_file_mv_m}
    ELSE {_parameters_file, _time_population_file}

\* The first name of e_acc_parameter that Parameters holds, counted from 1;
\* 0 when it holds none.
FirstNameFound(factory, parameters) ==
    IF \A i \in 1..Len(factory.e_acc_parameter) :
          factory.e_acc_parameter[i] \notin DOMAIN parameters
    THEN 0
    ELSE CHOOSE i \in 1..Len(factory.e_acc_parameter) :
            /\ factory.e_acc_parameter[i] \in DOMAIN parameters
            /\ \A j \in 1..(i - 1) :
                  factory.e_acc_parameter[j] \notin DOMAIN parameters

\* CSTResultsFactory._pop_e_acc: the value, raw_results as the pops leave
\* it, and the exception.
_pop_e_acc(factory, raw_results) ==
    LET parameters == raw_results[no_extension(_parameters_file)]
        i == FirstNameFound(factory, parameters)
        key == no_extension(factory.e_acc_file_mv_m)
    IN  IF i # 0
        THEN [e_acc |-> <<parameters[factory.e_acc_parameter[i]]>>,
              raw_results |->
                  [raw_results EXCEPT ![no_extension(_parameters_file)] =
                      Pop(parameters, factory.e_acc_parameter[i])],
              raised |-> "none"]
        ELSE IF key \in DOMAIN raw_results
        THEN [e_acc |-> <<[m |-> raw_results[key].m,
                           e |-> raw_results[key].e + EAccFileExp]>>,
              raw_results |-> Pop(raw_results, key),
              raised |-> "none"]
        ELSE [e_acc |-> <<>>, raw_results |-> raw_results,
              raised |-> "ValueError"]

\* CSTResultsFactory._from_simulation_folder, get_id and
\* mmdd_xxxxxxx_folder_to_dict having returned id and raw_results.
_from_simulation_folder(factory, id, raw_results) ==
    LET field == _pop_e_acc(factory, raw_results)
        part_time == raw_results[no_extension(_time_population_file)]
        popped == Pop(field.raw_results, no_extension(_time_population_file))
        failed(raw, exception) ==
            [result |-> <<>>, raw_results |-> raw, raised |-> exception]
    IN  IF \E filename \in mandatory_files(factory) :
              no_extension(filename) \notin DOMAIN raw_results
        THEN failed(raw_results, "MissingFileError")
        ELSE IF field.raised # "none"
        THEN failed(field.raw_results, field.raised)
        ELSE IF /\ factory.p_rms_file # "None"
                /\ no_extension(factory.p_rms_file) \notin DOMAIN popped
        THEN failed(popped, "KeyError")
        ELSE [result |->
                 <<[id |-> id, e_acc |-> field.e_acc[1],
                    p_rms |-> IF factory.p_rms_file = "None" THEN <<>>
                              ELSE <<popped[no_extension(factory.p_rms_file)]>>,
                    time |-> [i \in 1..Len(part_time) |-> part_time[i][1]],
                    population |->
                        [i \in 1..Len(part_time) |-> part_time[i][2]]]>>,
              raw_results |->
                  IF factory.p_rms_file = "None" THEN popped
                  ELSE Pop(popped, no_extension(factory.p_rms_file)),
              raised |-> "none"]

InitCst ==
    /\ pkg = "simultipac"
    /\ cst_factory \in Factories
    /\ \E keys \in SUBSET RawKeys, parameters \in ParameterDicts,
          value \in FieldValues, part_time \in PartTimes :
          cst_raw = [k \in keys |->
                        CASE k = "Parameters" -> parameters
                          [] k = "Particle vs. Time" -> part_time
                          [] OTHER -> value]
    /\ cst_pc = "built"
    /\ cst_out = <<>>
    /\ ParticleIdle /\ MonitorIdle /\ SimIdle /\ ColIdle /\ MtIdle /\ FitIdle
    /\ SimsIdle /\ LdIdle /\ WalkIdle

MandatoryFiles ==
    /\ cst_pc = "built"
    /\ cst_out' = [op |-> "mandatory_files",
                   mandatory |-> mandatory_files(cst_factory),
                   result |-> <<>>, found |-> cst_raw]
    /\ cst_pc' = "returned"
    /\ UNCHANGED <<pkg, walkVars, cst_factory, cst_raw, particleVars, monitorVars,
                   simVars, colVars, mtVars, fitVars, simsVars, ldVars>>

FromSimulationFolder ==
    /\ cst_pc = "built"
    /\ LET r == _from_simulation_folder(cst_factory, 1, cst_raw)
       IN  /\ cst_out' = [op |-> "_from_simulation_folder",
                          mandatory |-> {}, result |-> r.result,
                          found |-> cst_raw]
           /\ cst_raw' = r.raw_results
           /\ cst_pc' = IF r.raised = "none" THEN "returned" ELSE r.raised
    /\ UNCHANGED <<pkg, walkVars, cst_factory, particleVars, monitorVars, simVars,
                   colVars, mtVars, fitVars, simsVars, ldVars>>

NextCst == MandatoryFiles \/ FromSimulationFolder

SpecCst == InitCst /\ [][NextCst]_vars

\* The factory was created with default arguments.
DefaultFactory ==
    /\ cst_factory.e_acc_parameter = DefaultEAccParameter
    /\ cst_factory.e_acc_file_mv_m = DefaultEAccFile
    /\ cst_factory.p_rms_file = "None"

C18_EAccFromFallbackFile ==
    (/\ cst_out # <<>>
     /\ cst_out.op = "_from_simulation_folder"
     /\ DefaultFactory
     /\ {"Parameters", "Particle vs. Time", "E_acc in MV per m"}
           \subseteq DOMAIN cst_out.found
     /\ FirstNameFound(cst_factory, cst_out.found["Parameters"]) = 0)
    => /\ cst_pc = "returned"
       /\ Len(cst_out.result) = 1
       /\ cst_out.result[1].e_acc = cst_out.found["E_acc in MV per m"]
       /\ \A i \in 1..Len(cst_out.found["Particle vs. Time"]) :
             /\ cst_out.result[1].time[i] =
                   cst_out.found["Particle vs. Time"][i][1]
             /\ cst_out.result[1].population[i] =
                   cst_out.found["Particle vs. Time"][i][2]

-----------------------------------------------------------------------------
(* loaders.loader_cst.particle_monitor                                      *)
(*                                                                          *)
(* A line is the list of its characters, "\t" the delimiter of the call.    *)

LineTexts == {<<"7">>, <<"7", "\t", "0">>}

\* line.split(delimiter)
RECURSIVE split(_, _)
split(line, delimiter) ==
    IF \A i \in 1..Len(line) : line[i] # delimiter THEN <<line>>
    ELSE LET at == CHOOSE i \in 1..Len(line) :
                      /\ line[i] = delimiter
                      /\ \A j \in 1..(i - 1) : line[j] # delimiter
         IN  <<SubSeq(line, 1, at - 1)>>
             \o split(SubSeq(line, at + 1, Len(line)), delimiter)

\* particle_monitor(filepath, delimiter): enumerate counts the lines from 0.
particle_monitor(file, delimiter) ==
    LET kept == SelectSeq([j \in 1..Len(file) |-> j],
                          LAMBDA j : j - 1 > n_header)
    IN  [k \in 1..Len(kept) |-> split(file[kept[k]], delimiter)]

InitLoader ==
    /\ pkg = "multipactor"
    /\ ld_file \in UNION {[1..n -> LineTexts] : n \in 0..MaxLines}
    /\ ld_pc = "call"
    /\ ld_out = <<>>
    /\ ParticleIdle /\ MonitorIdle /\ SimIdle /\ ColIdle /\ MtIdle /\ FitIdle
    /\ SimsIdle /\ CstIdle /\ WalkIdle

LoadParticleMonitor ==
    /\ ld_pc = "call"
    /\ ld_out' = particle_monitor(ld_file, "\t")
    /\ ld_pc' = "returned"
    /\ UNCHANGED <<pkg, walkVars, ld_file, particleVars, monitorVars, simVars, colVars,
                   mtVars, fitVars, simsVars, cstVars>>

NextLoader == LoadParticleMonitor

SpecLoader == InitLoader /\ [][NextLoader]_vars

\* C19: particle_monitor discards the first 6 lines of the file and returns
\* one record, the fields of the line, for every later line, in file order.
C19_SixHeaderLines ==
    ld_pc = "returned" =>
        /\ Len(ld_out) = (IF Len(ld_file) > 6 THEN Len(ld_file) - 6 ELSE 0)
        /\ \A k \in 1..Len(ld_out) : ld_out[k] = split(ld_file[6 + k], "\t")


-----------------------------------------------------------------------------
(* _absolute_file_paths (simultipac particle_monitor.py)                    *)
(*                                                                          *)
(* The tree under the folder is the list of its directories in the order    *)
(* os.walk visits them, the folder itself first, each with the names of     *)
(* its files.  A path is the directory and the file name.                   *)

FileLists ==
    {<<>>,
     <<[stem |-> "t", suffix |-> ".txt"]>>,
     <<[stem |-> "t", suffix |-> ".swp"]>>,
     <<[stem |-> "t", suffix |-> ".txt"], [stem |-> "t", suffix |-> ".swp"]>>}

DirectoryTrees == UNION {[1..n -> FileLists] : n \in 1..MaxDirectories}

InitWalk ==
    /\ pkg = "simultipac"
    /\ walk_tree \in DirectoryTrees
    /\ walk_pc = [outer |-> 1, inner |-> 1, file |-> 0]
    /\ walk_yielded = <<>>
    /\ ParticleIdle /\ MonitorIdle /\ SimIdle /\ ColIdle /\ MtIdle /\ FitIdle
    /\ SimsIdle /\ CstIdle /\ LdIdle

\* The generator stands in a turn of both loops over os.walk.
Walking ==
    /\ walk_pc.outer <= Len(walk_tree)
    /\ walk_pc.inner <= Len(walk_tree)

\* The next file name of the inner loop's directory.
NextFile == walk_tree[walk_pc.inner][walk_pc.file + 1]

\* for f in filenames: a .swp file is passed over.
SkipFile ==
    /\ Walking
    /\ walk_pc.file < Len(walk_tree[walk_pc.inner])
    /\ NextFile.suffix \in {".swp"}
    /\ walk_pc' = [walk_pc EXCEPT !.file = @ + 1]
    /\ UNCHANGED <<pkg, walk_tree, walk_yielded, particleVars, monitorVars,
                   simVars, colVars, mtVars, fitVars, simsVars, cstVars,
                   ldVars>>

\* for f in filenames: yield Path(dirpath, f)
YieldFile ==
    /\ Walking
    /\ walk_pc.file < Len(walk_tree[walk_pc.inner])
    /\ NextFile.suffix \notin {".swp"}
    /\ walk_yielded' = Append(walk_yielded,
                              [dirpath |-> walk_pc.inner, f |-> NextFile])
    /\ walk_pc' = [walk_pc EXCEPT !.file = @ + 1]
    /\ UNCHANGED <<pkg, walk_tree, particleVars, monitorVars, simVars,
                   colVars, mtVars, fitVars, simsVars, cstVars, ldVars>>

\* The inner `for dirpath, _, filenames in os.walk(directory)` takes the
\* next directory of the tree.
InnerWalkNext ==
    /\ Walking
    /\ walk_pc.file = Len(walk_tree[walk_pc.inner])
    /\ walk_pc.inner < Len(walk_tree)
    /\ walk_pc' = [walk_pc EXCEPT !.inner = @ + 1, !.file = 0]
    /\ UNCHANGED <<pkg, walk_tree, walk_yielded, particleVars, monitorVars,
                   simVars, colVars, mtVars, fitVars, simsVars, cstVars,
                   ldVars>>

\* The inner walk is exhausted: the outer `for dirpath, _, filenames in
\* os.walk(directory)` takes its next directory and starts the inner walk
\* anew, or is exhausted too.
OuterWalkNext ==
    /\ Walking
    /\ walk_pc.file = Len(walk_tree[walk_pc.inner])
    /\ walk_pc.inner = Len(walk_tree)
    /\ walk_pc' = [outer |-> walk_pc.outer + 1, inner |-> 1, file |-> 0]
    /\ UNCHANGED <<pkg, walk_tree, walk_yielded, particleVars, monitorVars,
                   simVars, colVars, mtVars, fitVars, simsVars, cstVars,
                   ldVars>>

NextWalk == SkipFile \/ YieldFile \/ InnerWalkNext \/ OuterWalkNext

SpecWalk == InitWalk /\ [][NextWalk]_vars

\* The generator is exhausted.
WalkDone == walk_tree # <<>> /\ walk_pc.outer > Len(walk_tree)

\* How many times the path was yielded.
TimesYielded(path) ==
    Cardinality({i \in 1..Len(walk_yielded) : walk_yielded[i] = path})

\* C30: the exhausted generator has yielded every file of the tree that is
\* not a .swp file exactly once, and no .swp file, with or without
\* sub-directories.
C30_EveryFileYieldedOnce ==
    WalkDone =>
        \A d \in 1..Len(walk_tree) :
            \A k \in 1..Len(walk_tree[d]) :
                TimesYielded([dirpath |-> d, f |-> walk_tree[d][k]])
                   = IF walk_tree[d][k].suffix = ".swp" THEN 0 ELSE 1

====
